---- MODULE Spec2Model ----
(***************************************************************************)
(* Model of the scidata_xwalker pipeline (scidata_xwalker.py) and of the   *)
(* SciData document builder (scidata.py).                                   *)
(*                                                                          *)
(* Python values are modelled uniformly:                                    *)
(*   - a Python string is a sequence of symbols; a symbol is one decimal    *)
(*     digit, one punctuation mark (";" "/" "{" ...), the placeholder       *)
(*     "$!@%", or a word standing for a run of non-digit characters that    *)
(*     no pattern of the model splits;                                      *)
(*   - a JSON value is a node [t, s, kv, lit]: t = "s" (scalar, payload s), *)
(*     t = "d" (dict, kv the insertion-ordered key/value pairs) or          *)
(*     t = "l" (list, kv the elements under empty keys);                    *)
(*   - a string that is the text of a dict literal (str(dict)) is a scalar  *)
(*     with lit = TRUE whose kv holds the items the text denotes; its text  *)
(*     is kept as its first symbol "{" and a symbol for the rest;           *)
(*   - a regular expression is a sequence of parts, each a literal or a     *)
(*     digit run \d{1,}, every part being one capture group when the        *)
(*     pattern is grouped.                                                  *)
(***************************************************************************)
EXTENDS Integers, Sequences, FiniteSets, TLC

VARIABLES
    pc,                 \* position of the driver script / of the call
    err,                \* an exception propagated out of the running call
    object_data_json,   \* the input tree (mutated in place by crosswalker)
    crosswalks,         \* the crosswalk table
    cw_table,           \* crosswalker's cw_table argument (table matching)
    dictionary,         \* flatten_json_iterative_solution's working dict
    sci_input,          \* object_data_json_flat_filtered: the extracted leaves
    group_overrides,    \* the group-link override table (ordered)
    bins,               \* binner's output
    bins_grouped,       \* bin_grouper's output
    datasetmod,         \* datasetmodder's output
    aspects,            \* meta['@graph']['scidata']['methodology']['aspects']
    facets,             \* meta['@graph']['scidata']['system']['facets']
    dataset,            \* meta['@graph']['scidata']['dataset']
    ids,                \* meta['@graph']['ids'] (a sorted list without duplicates)
    sci_links,          \* the link-rule table
    sci_groups,         \* the group-rule table
    last                \* the argument and the result of the latest call

vars == <<pc, err, object_data_json, crosswalks, cw_table, dictionary,
          sci_input, group_overrides, bins, bins_grouped, datasetmod, aspects,
          facets, dataset, ids, sci_links, sci_groups, last>>

(***************************************************************************)
(* Strings                                                                  *)
(***************************************************************************)
Digits == <<"0", "1", "2", "3", "4", "5", "6", "7", "8", "9">>

DigitSet == {Digits[i] : i \in 1..10}

IsDigit(c) == c \in DigitSet

DigitVal(c) == CHOOSE i \in 0..9 : Digits[i + 1] = c

\* the placeholder of replacement and target templates
PH == "$!@%"

RECURSIVE Str(_)
\* str(n) for n >= 0
Str(n) == IF n < 10 THEN <<Digits[n + 1]>>
          ELSE Str(n \div 10) \o <<Digits[(n % 10) + 1]>>

RECURSIVE IntOf(_)
\* int(s) for a non-empty run of digits
IntOf(s) == IF Len(s) = 1 THEN DigitVal(s[1])
            ELSE 10 * IntOf(SubSeq(s, 1, Len(s) - 1)) + DigitVal(s[Len(s)])

AllDigits(s) == Len(s) > 0 /\ \A i \in 1..Len(s) : IsDigit(s[i])

\* s[i .. i+Len(t)-1] = t  (i is 1-based)
OccursAt(t, s, i) ==
    /\ i + Len(t) - 1 <= Len(s)
    /\ \A j \in 1..Len(t) : s[i + j - 1] = t[j]

RECURSIVE ReplaceSym(_, _, _)
\* str.replace(c, by): every occurrence of the symbol c replaced by the string by
ReplaceSym(s, c, by) ==
    IF s = <<>> THEN <<>>
    ELSE (IF Head(s) = c THEN by ELSE <<Head(s)>>) \o ReplaceSym(Tail(s), c, by)

\* positions of the symbol c in s
Positions(s, c) == {i \in 1..Len(s) : s[i] = c}

Max(S) == CHOOSE x \in S : \A y \in S : y <= x

Min(S) == CHOOSE x \in S : \A y \in S : x <= y

(***************************************************************************)
(* Regular expressions (module re)                                          *)
(***************************************************************************)
Lit(w) == [kind |-> "lit", lit |-> w]

\* \d{1,}
Num == [kind |-> "num", lit |-> <<>>]

\* a pattern: its parts in order; grouped = every part is wrapped in ( )
Pat(parts, grouped) == [parts |-> parts, grouped |-> grouped]

\* length of the digit run of s that starts at position i
RECURSIVE DigitRun(_, _)
DigitRun(s, i) == IF i <= Len(s) /\ IsDigit(s[i]) THEN 1 + DigitRun(s, i + 1) ELSE 0

RECURSIVE MatchFrom(_, _, _)
\* The match the backtracking matcher finds for parts at position i of s: the
\* sequence of end positions (exclusive) of the parts, or <<0>> when there is
\* none.  A digit run is greedy: the longest run that lets the rest match.
MatchFrom(parts, s, i) ==
    IF parts = <<>> THEN <<>>
    ELSE LET p == Head(parts) IN
         IF p.kind = "lit"
         THEN IF OccursAt(p.lit, s, i)
              THEN LET r == MatchFrom(Tail(parts), s, i + Len(p.lit)) IN
                   IF r = <<0>> THEN <<0>> ELSE <<i + Len(p.lit)>> \o r
              ELSE <<0>>
         ELSE LET ok == {n \in 1..DigitRun(s, i) :
                            MatchFrom(Tail(parts), s, i + n) # <<0>>} IN
              IF ok = {} THEN <<0>>
              ELSE <<i + Max(ok)>> \o MatchFrom(Tail(parts), s, i + Max(ok))

MatchesAt(pat, s, i) == MatchFrom(pat.parts, s, i) # <<0>>

\* re.search(pattern, s) is not None
Search(pat, s) == \E i \in 1..(Len(s) + 1) : MatchesAt(pat, s, i)

\* re.match(pattern, s) is not None
Match(pat, s) == MatchesAt(pat, s, 1)

\* whether re.match(pattern, s).group(2) returns a string (no exception)
HasGroup2(pat, s) == Match(pat, s) /\ pat.grouped /\ Len(pat.parts) >= 2

\* re.match(pattern, s).group(2)
Group2(pat, s) ==
    LET m == MatchFrom(pat.parts, s, 1) IN SubSeq(s, m[1], m[2] - 1)

(***************************************************************************)
(* JSON values                                                              *)
(***************************************************************************)
NoScalar == [kind |-> "-", val |-> <<>>]

\* a scalar of Python type kind ("str", "int", "float", "None") written val
Sc(kind, val) ==
    [t |-> "s", s |-> [kind |-> kind, val |-> val], kv |-> <<>>, lit |-> FALSE]

StrV(val) == Sc("str", val)

\* a one-word string
W(word) == StrV(<<word>>)

\* a dict from its items (key, value) in insertion order
Dict(items) == [t |-> "d", s |-> NoScalar, kv |-> items, lit |-> FALSE]

KV(k, v) == [k |-> k, v |-> v]

EmptyDict == Dict(<<>>)

\* a list from its elements
List(els) == [t |-> "l", s |-> NoScalar,
              kv |-> [i \in 1..Len(els) |-> KV(<<>>, els[i])], lit |-> FALSE]

\* str(d) for a dict d
Repr(d) == [t |-> "s", s |-> [kind |-> "str", val |-> <<"{", "...">>],
            kv |-> d.kv, lit |-> TRUE]

\* whether ast.literal_eval(x) returns (a dict) for the string x
IsLiteral(x) == x.lit

\* ast.literal_eval(x) for the text of a dict literal
LiteralEval(x) == Dict(x.kv)

\* x.startswith('{')
StartsWithBrace(x) == Len(x.s.val) > 0 /\ x.s.val[1] = "{"

IsDict(x) == x.t = "d"

IsList(x) == x.t = "l"

IsStr(x) == x.t = "s" /\ x.s.kind = "str"

Elems(x) == [i \in 1..Len(x.kv) |-> x.kv[i].v]

Keys(d) == {d.kv[i].k : i \in 1..Len(d.kv)}

Has(d, k) == k \in Keys(d)

\* d[k]
Get(d, k) == d.kv[CHOOSE i \in 1..Len(d.kv) : d.kv[i].k = k].v

\* d[k] = v: the value replaced where the key exists, else the item appended
Put(d, k, v) ==
    IF Has(d, k)
    THEN [d EXCEPT !.kv = [i \in 1..Len(d.kv) |->
                              IF d.kv[i].k = k THEN KV(k, v) ELSE d.kv[i]]]
    ELSE [d EXCEPT !.kv = Append(d.kv, KV(k, v))]

\* the elements of s at the indices that keep holds of, in the order of s
SelectIdx(s, keep(_)) ==
    LET kept == {i \in 1..Len(s) : keep(i)}
    IN [j \in 1..Cardinality(kept) |->
           s[CHOOSE i \in kept : Cardinality({x \in kept : x <= i}) = j]]

\* the distinct elements of xs in the order they are first added to a set
\* or a dict
Added(xs) == SelectIdx(xs, LAMBDA i : \A j \in 1..(i - 1) : xs[j] # xs[i])

\* d.pop(k)
Pop(d, k) == [d EXCEPT !.kv = SelectIdx(d.kv, LAMBDA i : d.kv[i].k # k)]

\* bool(x)
Truthy(x) ==
    IF x.t = "s"
    THEN CASE x.s.kind = "str" -> x.s.val # <<>>
           [] x.s.kind = "None" -> FALSE
           [] x.s.kind = "bool" -> x.s.val = <<"True">>
           [] OTHER -> x.s.val \notin {<<"0">>, <<"0", ".", "0">>}
    ELSE x.kv # <<>>

\* d.get(k, False) is truthy
GetTruthy(d, k) == Has(d, k) /\ Truthy(Get(d, k))

\* a one-word key
K(word) == <<word>>

(***************************************************************************)
(* crosswalker                                                              *)
(***************************************************************************)
FIELD == K("field")

TABLE == K("table")

\* the indices of the crosswalk entries the generator expression yields for
\* field x in directory sci_dir
Matches(cws, x, sci_dir, byTable) ==
    {i \in 1..Len(cws) :
        /\ Get(cws[i], FIELD) = StrV(x)
        /\ byTable => Get(cws[i], TABLE) = StrV(sci_dir)}

\* a lookup that returns the last matching entry
LastMatch(cws, x, sci_dir, byTable) ==
    IF Matches(cws, x, sci_dir, byTable) = {} THEN 0
    ELSE Max(Matches(cws, x, sci_dir, byTable))

\* next((cw for cw in crosswalks if ...), None): the first entry that
\* matches, 0 standing for None
FirstMatch(cws, x, sci_dir, byTable) ==
    IF Matches(cws, x, sci_dir, byTable) = {} THEN 0
    ELSE Min(Matches(cws, x, sci_dir, byTable))

\* d.update(e): the values of the keys d has are replaced in place, the
\* items of e with other keys are appended in the order of e
Update(d, e) ==
    [d EXCEPT !.kv =
        [i \in 1..Len(d.kv) |->
            IF Has(e, d.kv[i].k) THEN KV(d.kv[i].k, Get(e, d.kv[i].k))
            ELSE d.kv[i]]
        \o SelectIdx(e.kv, LAMBDA i : ~Has(d, e.kv[i].k))]

\* out = {"scidata_value": y}; out.update(match); out.pop('updated', None);
\* str(out)
Annotated(y, match) ==
    Repr(Pop(Update(Dict(<<KV(K("scidata_value"), y)>>), match), K("updated")))

\* type(y) in [str, int, float]
IsPlainScalar(y) == y.t = "s" /\ y.s.kind \in {"str", "int", "float"}

RECURSIVE crosswalker(_, _, _, _)
\* The tree after crosswalker(sci_dir, node, crosswalks, 'field', cw_table)
\* and whether the call returned (ok) or raised: node.items() raises for a
\* node that is no dict, and what was annotated before stays annotated.
crosswalker(sci_dir, node, cws, byTable) ==
    IF ~IsDict(node) THEN [tree |-> node, ok |-> FALSE]
    ELSE
    LET n == Len(node.kv)
        \* the elements of a list value, visited in order
        Walk(x, els) ==
            LET G[j \in 0..Len(els)] ==
                    IF j = 0 THEN [els |-> els, ok |-> TRUE]
                    ELSE LET prev == G[j - 1] IN
                         IF ~prev.ok THEN prev
                         ELSE LET r == crosswalker(x, els[j].v, cws, byTable) IN
                              [els |-> [prev.els EXCEPT ![j] = KV(<<>>, r.tree)],
                               ok |-> r.ok]
            IN G[Len(els)]
        F[i \in 0..n] ==
            IF i = 0 THEN [kv |-> node.kv, ok |-> TRUE]
            ELSE LET prev == F[i - 1] IN
                 IF ~prev.ok THEN prev
                 ELSE LET x == node.kv[i].k
                          y == node.kv[i].v
                          m == FirstMatch(cws, x, sci_dir, byTable)
                      IN IF IsPlainScalar(y)
                         THEN IF m # 0 /\ Truthy(cws[m])
                              THEN [kv |-> [prev.kv EXCEPT
                                               ![i] = KV(x, Annotated(y, cws[m]))],
                                    ok |-> TRUE]
                              ELSE prev
                         ELSE IF IsDict(y)
                         THEN LET r == crosswalker(x, y, cws, byTable) IN
                              [kv |-> [prev.kv EXCEPT ![i] = KV(x, r.tree)],
                               ok |-> r.ok]
                         ELSE IF IsList(y)
                         THEN LET w == Walk(x, y.kv) IN
                              [kv |-> [prev.kv EXCEPT
                                          ![i] = KV(x, [y EXCEPT !.kv = w.els])],
                               ok |-> w.ok]
                         ELSE prev
        res == F[n]
    IN [tree |-> [node EXCEPT !.kv = res.kv], ok |-> res.ok]

(***************************************************************************)
(* group_link_override                                                      *)
(***************************************************************************)
Rule(pattern, replacement) == [pattern |-> pattern, replacement |-> replacement]

\* a substitution that leaves the template as it is written
TemplateAsWritten(pat, template, link) == template

\* replacement.replace('$!@%', re.match(pattern, link).group(2)), and the
\* except branch: the literal replacement
Substitute(pat, template, link) ==
    IF HasGroup2(pat, link)
    THEN ReplaceSym(template, PH, Group2(pat, link))
    ELSE template

\* one "if re.search(...): try ... except ..." block
OverrideOnce(rule, link) ==
    IF Search(rule.pattern, link)
    THEN Substitute(rule.pattern, rule.replacement, link)
    ELSE link

\* the body of the loop over the rules in the package: the block, twice
OverrideRule(rule, link) == OverrideOnce(rule, OverrideOnce(rule, link))

\* the body of the loop over the rules in the top-level module: the block, once
OverrideRuleFlat(rule, link) == OverrideOnce(rule, link)

\* A loop over the rules that stops at the first rule that matches.
OverrideTraceFirstWins(link, rules) ==
    LET F[i \in 0..Len(rules)] ==
            IF i = 0 THEN <<link>>
            ELSE LET prev == F[i - 1] IN
                 Append(prev, IF prev[i] = link
                              THEN OverrideRule(rules[i], prev[i])
                              ELSE prev[i])
    IN F[Len(rules)]

\* The links a leaf's scidata_group_link goes through in the loop over the
\* rules: element 1 is the link before the loop, element i + 1 the link after
\* rule i, which is applied to the link the rules before it left.
OverrideTrace(link, rules) ==
    LET F[i \in 0..Len(rules)] ==
            IF i = 0 THEN <<link>>
            ELSE LET prev == F[i - 1] IN
                 Append(prev, OverrideRule(rules[i], prev[i]))
    IN F[Len(rules)]

\* the same loop in the top-level module
OverrideTraceFlat(link, rules) ==
    LET F[i \in 0..Len(rules)] ==
            IF i = 0 THEN <<link>>
            ELSE LET prev == F[i - 1] IN
                 Append(prev, OverrideRuleFlat(rules[i], prev[i]))
    IN F[Len(rules)]

GROUP_LINK == K("scidata_group_link")

LinkOf(leaf) == Get(leaf, GROUP_LINK).s.val

\* scidata_xwalker/scidata_xwalker.py
group_link_override(input, rules) ==
    [input EXCEPT !.kv = [i \in 1..Len(input.kv) |->
        KV(input.kv[i].k,
           Put(input.kv[i].v, GROUP_LINK,
               StrV(OverrideTrace(LinkOf(input.kv[i].v), rules)[Len(rules) + 1])))]]

\* scidata_xwalker.py
group_link_override_flat(input, rules) ==
    [input EXCEPT !.kv = [i \in 1..Len(input.kv) |->
        KV(input.kv[i].k,
           Put(input.kv[i].v, GROUP_LINK,
               StrV(OverrideTraceFlat(LinkOf(input.kv[i].v), rules)[Len(rules) + 1])))]]

(***************************************************************************)
(* Bounded inputs of group_link_override                                    *)
(***************************************************************************)
\* longest override table
MaxRules == 2

SeqsUpTo(S, n) == UNION {[1..k -> S] : k \in 0..n}

Distinct(seq, f(_)) ==
    \A i, j \in 1..Len(seq) : f(seq[i]) = f(seq[j]) => i = j

QSAR == <<"compounds", ";", "qsar_predicted_properties", ";">>

\* "compounds;qsar_predicted_properties;<n>/<sub>"
QsarLink(n, sub) == QSAR \o Str(n) \o <<"/", sub>>

\* '(compounds;qsar_predicted_properties;)(\d{1,})(\/<sub>)'
QsarPattern(sub) == Pat(<<Lit(QSAR), Num, Lit(<<"/", sub>>)>>, TRUE)

\* 'compounds;qsar_predicted_properties;$!@%/<sub>'
QsarTemplate(sub) == QSAR \o <<PH, "/", sub>>

\* example.py: group_overrides
SampleOverrides ==
    << Rule(QsarPattern("exptdata"), QsarTemplate("data")),
       Rule(QsarPattern("suppdata"), QsarTemplate("data")) >>

\* The symbols of the generic inputs ("w", "z", "k") occur in no word of
\* the sample ("compounds", "exptdata", ...), so that matching symbol by
\* symbol is matching character by character.
OverridePatterns ==
    { Pat(<<Lit(<<"w">>)>>, FALSE),                       \* 'w'
      Pat(<<Lit(<<"z">>)>>, TRUE),                        \* '(z)'
      Pat(<<Lit(<<"w">>), Num>>, TRUE),                   \* '(w)(\d{1,})'
      Pat(<<Lit(<<"w">>), Num, Lit(<<"0">>)>>, TRUE),     \* '(w)(\d{1,})(0)'
      Pat(<<Lit(<<"z">>), Lit(<<"w">>)>>, TRUE) }         \* '(z)(w)'

OverrideTemplates ==
    { <<"z">>, <<"w", PH>>, <<"z", PH, "w", "1">> }

OverrideRules ==
    {Rule(p, t) : p \in OverridePatterns, t \in OverrideTemplates}
        \cup {SampleOverrides[1], SampleOverrides[2]}

\* dict keys are unique: a table holds one rule per pattern
OverrideTables ==
    {tb \in SeqsUpTo(OverrideRules, MaxRules) :
        Distinct(tb, LAMBDA r : r.pattern)}

OverrideLinks ==
    { <<"w">>, <<"z">>, <<"k">>, <<"w", "1">>, <<"z", "w", "1">>,
      <<"w", "1", "0">>, <<"w", "2", "0", "z">>,
      QsarLink(0, "exptdata"), QsarLink(1, "suppdata"), QsarLink(10, "model") }

GROUP_LINK_ORIGINAL == K("scidata_group_link_original")

\* an extracted leaf, reduced to the fields group_link_override touches
LinkLeaf(link) ==
    Dict(<<KV(GROUP_LINK, StrV(link)), KV(GROUP_LINK_ORIGINAL, StrV(link))>>)

OverrideInputs ==
    {Dict(<<KV(K("k1"), LinkLeaf(l))>>) : l \in OverrideLinks}
        \cup {Dict(<<KV(K("k1"), LinkLeaf(QsarLink(0, "exptdata"))),
                     KV(K("k2"), LinkLeaf(QsarLink(1, "suppdata")))>>)}

(***************************************************************************)
(* Values of the variables a specification does not use                     *)
(***************************************************************************)
NoCall == [op |-> "none", arg |-> EmptyDict, ret |-> EmptyDict]

Call(op, arg, ret) == [op |-> op, arg |-> arg, ret |-> ret]

treeVars == <<object_data_json, crosswalks, cw_table>>

docVars == <<aspects, facets, dataset, ids>>

binVars == <<bins, bins_grouped, datasetmod>>

ruleVars == <<group_overrides, sci_links, sci_groups>>

TreeIdle == object_data_json = EmptyDict /\ crosswalks = <<>> /\ cw_table = FALSE

\* SciData.__init__
DocInit ==
    /\ aspects = List(<<>>)
    /\ facets = List(<<>>)
    /\ dataset = Dict(<< KV(K("@id"), StrV(<<"dataset", "/">>)),
                         KV(K("@type"), StrV(<<"sdo", ":", "dataset">>)),
                         KV(K("scope"), StrV(<<>>)) >>)
    /\ ids = {}

BinIdle == bins = EmptyDict /\ bins_grouped = EmptyDict /\ datasetmod = <<>>

(***************************************************************************)
(* SpecOverride: group_link_override on bounded leaves and tables           *)
(***************************************************************************)
InitOverride ==
    /\ pc = "group_link_override"
    /\ err = "none"
    /\ sci_input \in OverrideInputs
    /\ group_overrides \in OverrideTables
    /\ sci_links = <<>> /\ sci_groups = <<>>
    /\ dictionary = EmptyDict
    /\ TreeIdle /\ DocInit /\ BinIdle
    /\ last = NoCall

\* example.py line 205; the function of the package
GroupLinkOverride ==
    /\ pc = "group_link_override"
    /\ sci_input' = group_link_override(sci_input, group_overrides)
    /\ last' = Call("group_link_override", sci_input,
                     [i \in 1..Len(sci_input.kv) |->
                         OverrideTrace(LinkOf(sci_input.kv[i].v), group_overrides)])
    /\ pc' = "get_semantics"
    /\ UNCHANGED <<err, dictionary, treeVars, docVars, binVars, ruleVars>>

\* the same call to the function of the top-level module
GroupLinkOverrideFlat ==
    /\ pc = "group_link_override"
    /\ sci_input' = group_link_override_flat(sci_input, group_overrides)
    /\ last' = Call("group_link_override_flat", sci_input,
                     [i \in 1..Len(sci_input.kv) |->
                         OverrideTraceFlat(LinkOf(sci_input.kv[i].v), group_overrides)])
    /\ pc' = "get_semantics"
    /\ UNCHANGED <<err, dictionary, treeVars, docVars, binVars, ruleVars>>

NextOverride == GroupLinkOverride \/ GroupLinkOverrideFlat

SpecOverride == InitOverride /\ [][NextOverride]_vars

(***************************************************************************)
(* Bounded inputs of crosswalker and of the flattener                       *)
(***************************************************************************)
\* longest crosswalk table
MaxCrosswalks == 2

\* longest list in an input tree
MaxList == 2

IntV(n) == Sc("int", Str(n))

None == Sc("None", <<>>)

\* a crosswalk entry (a row of the crosswalks table)
Crosswalk(id, table, field, section, subsection) ==
    Dict(<< KV(K("id"), IntV(id)),
            KV(TABLE, W(table)),
            KV(FIELD, W(field)),
            KV(K("sdsection"), W(section)),
            KV(K("sdsubsection"), W(subsection)) >>)

CrosswalkEntries ==
    { Crosswalk(1, "T", "f", "system", "s1"),
      Crosswalk(2, "L", "f", "dataset", "s2"),
      Crosswalk(3, "U", "g", "methodology", "s3") }

CrosswalkTables == SeqsUpTo(CrosswalkEntries, MaxCrosswalks)

TreeLeaves == { W("v"), IntV(7), Sc("bool", <<"True">>) }

\* mappings of scalar fields
InnerDicts ==
    { Dict(<<KV(K("f"), W("v"))>>),
      Dict(<<KV(K("g"), W("v")), KV(K("f"), None)>>) }

\* list elements: a list of records, as in the sample, or of scalars or lists
ListElems == { Dict(<<KV(K("f"), W("v"))>>), EmptyDict, W("v"), List(<<>>) }

Lists == {List(els) : els \in SeqsUpTo(ListElems, MaxList)}

\* the items a root record may hold, by field name
FieldChoices(name) ==
    CASE name = "f" -> TreeLeaves
      [] name = "U" -> InnerDicts
      [] name = "L" -> Lists

RootFields == <<"f", "U", "L">>

\* the records with any of the fields f (scalar), U (mapping), L (list)
Records ==
    LET Opt(name) == {<<>>} \cup {<<KV(K(name), v)>> : v \in FieldChoices(name)}
    IN {Dict(a \o b \o c) : a \in Opt("f"), b \in Opt("U"), c \in Opt("L")}

\* most keys of a single-level mapping
MaxFlat == 2

FlatKeys == {"f", "g", "h"}

\* the single-level mappings: up to MaxFlat keys in any order, every value
\* a scalar
FlatMappings ==
    UNION {{Dict([i \in 1..n |-> KV(K(ks[i]), vs[i])]) :
               ks \in {q \in [1..n -> FlatKeys] :
                          \A i, j \in 1..n : q[i] = q[j] => i = j},
               vs \in [1..n -> TreeLeaves]} : n \in 0..MaxFlat}

\* the input trees: a single root key, the central table, as in the sample
Trees == {Dict(<<KV(K("T"), r)>>) : r \in Records}

\* example.py: central_table
CentralTable(tree) == tree.kv[1].k

(***************************************************************************)
(* flatten_json_iterative_solution                                          *)
(***************************************************************************)
\* an unpack that marks the key of every pair it yields
UnpackMarked(parent_key, parent_value) ==
    IF IsDict(parent_value) \/ IsList(parent_value)
    THEN [i \in 1..Len(parent_value.kv) |->
             KV(parent_key \o <<";">> \o Str(i - 1), parent_value.kv[i].v)]
    ELSE <<KV(parent_key \o <<";">>, parent_value)>>

\* unpack(parent_key, parent_value): one level of nesting unpacked
Unpack(parent_key, parent_value) ==
    IF IsDict(parent_value)
    THEN [i \in 1..Len(parent_value.kv) |->
             KV(parent_key \o <<";">> \o parent_value.kv[i].k,
                parent_value.kv[i].v)]
    ELSE IF IsList(parent_value)
    THEN [i \in 1..Len(parent_value.kv) |->
             KV(parent_key \o <<";">> \o Str(i - 1), parent_value.kv[i].v)]
    ELSE <<KV(parent_key, parent_value)>>

\* the pairs unpack yields for the items of d: <<item, place>> indices
Yielded(d) ==
    UNION {{<<i, m>> : m \in 1..Len(Unpack(d.kv[i].k, d.kv[i].v))} :
              i \in 1..Len(d.kv)}

\* the pair unpack yields at place q[2] for item q[1] of d
YieldedPair(d, q) == Unpack(d.kv[q[1]].k, d.kv[q[1]].v)[q[2]]

\* chain.from_iterable(starmap(unpack, dictionary.items())): q comes
\* before r in the chain
Before(q, r) == q[1] < r[1] \/ (q[1] = r[1] /\ q[2] < r[2])

\* dict(pairs): no later pair replaces the value of r
IsLastYield(d, r) ==
    \A q \in Yielded(d) :
        Before(r, q) => YieldedPair(d, q).k # YieldedPair(d, r).k

\* dict(pairs): the place of the key of r, the number of keys the pairs
\* up to the first pair with that key bring
KeyRank(d, r) ==
    Cardinality({YieldedPair(d, q).k :
                    q \in {p \in Yielded(d) :
                              \A f \in Yielded(d) :
                                  YieldedPair(d, f).k = YieldedPair(d, r).k
                                      => ~Before(f, p)}})

\* dict(chain.from_iterable(starmap(unpack, dictionary.items()))): a key
\* stays where it first occurs, a later pair with the same key replaces
\* the value
UnpackAll(d) ==
    Dict([n \in 1..Cardinality({YieldedPair(d, q).k : q \in Yielded(d)}) |->
            YieldedPair(d, CHOOSE r \in Yielded(d) :
                               IsLastYield(d, r) /\ KeyRank(d, r) = n)])

\* a terminate condition that tests for dicts only
IsFlatDictsOnly(d) == \A i \in 1..Len(d.kv) : ~IsDict(d.kv[i].v)

\* the terminate condition: no value is a dict and no value is a list
IsFlat(d) == \A i \in 1..Len(d.kv) : ~IsDict(d.kv[i].v) /\ ~IsList(d.kv[i].v)

(***************************************************************************)
(* SpecAnnot and SpecFlatten: crosswalker and the flattener on bounded      *)
(* trees                                                                    *)
(***************************************************************************)
InitAnnot ==
    /\ pc = "crosswalker"
    /\ err = "none"
    /\ object_data_json \in Trees
    /\ crosswalks \in CrosswalkTables
    /\ cw_table \in BOOLEAN
    /\ dictionary = EmptyDict
    /\ sci_input = EmptyDict
    /\ group_overrides = <<>> /\ sci_links = <<>> /\ sci_groups = <<>>
    /\ DocInit /\ BinIdle
    /\ last = NoCall

\* example.py line 199: crosswalker(central_table, object_data_json, ...)
Crosswalker ==
    /\ pc = "crosswalker"
    /\ LET r == crosswalker(CentralTable(object_data_json), object_data_json,
                            crosswalks, cw_table)
       IN /\ object_data_json' = r.tree
          /\ err' = IF r.ok THEN "none" ELSE "AttributeError"
          /\ pc' = IF r.ok THEN "flatten" ELSE "raised"
    /\ last' = Call("crosswalker", object_data_json, EmptyDict)
    /\ UNCHANGED <<crosswalks, cw_table, dictionary, sci_input, docVars,
                   binVars, ruleVars>>

\* example.py line 201: one pass of the while loop of
\* flatten_json_iterative_solution(object_data_json) and its break test
UnpackPass ==
    /\ pc \in {"flatten", "flatten_loop"}
    /\ \E d \in {UnpackAll(IF pc = "flatten" THEN object_data_json
                           ELSE dictionary)} :
          /\ dictionary' = d
          /\ pc' = IF IsFlat(d) THEN "cleanup_flattened" ELSE "flatten_loop"
    /\ last' = IF pc = "flatten"
               THEN Call("flatten_json_iterative_solution", object_data_json,
                         EmptyDict)
               ELSE last
    /\ UNCHANGED <<err, treeVars, sci_input, docVars, binVars, ruleVars>>

NextAnnot == Crosswalker

SpecAnnot == InitAnnot /\ [][NextAnnot]_vars

InitFlatten ==
    /\ pc = "flatten"
    /\ err = "none"
    /\ object_data_json \in
          Trees \cup {r \in Records : IsFlat(r)} \cup FlatMappings
    /\ crosswalks = <<>> /\ cw_table = FALSE
    /\ dictionary = EmptyDict
    /\ sci_input = EmptyDict
    /\ group_overrides = <<>> /\ sci_links = <<>> /\ sci_groups = <<>>
    /\ DocInit /\ BinIdle
    /\ last = NoCall

NextFlatten == UnpackPass

\* the loop runs on while the function is running
SpecFlatten == InitFlatten /\ [][NextFlatten]_vars /\ WF_vars(UnpackPass)

(***************************************************************************)
(* Claims about group_link_override                                         *)
(***************************************************************************)
Overridden ==
    pc = "get_semantics"
        /\ last.op \in {"group_link_override", "group_link_override_flat"}

\* the indices of the rules whose pattern is found in link
MatchingRules(rules, link) ==
    {i \in 1..Len(rules) : Search(rules[i].pattern, link)}

\* the indices of the rules whose pattern is found in the link the rules
\* before them left (tr is the leaf's trace)
AppliedRules(rules, tr) ==
    {i \in 1..Len(rules) : Search(rules[i].pattern, tr[i])}

\* what a matching rule writes, computed from the link it finds: the template
\* with the placeholder substituted (or the literal template); the package
\* computes it again from that result when the pattern is found in it
Written(op, rule, link) ==
    LET once == Substitute(rule.pattern, rule.replacement, link) IN
    IF op = "group_link_override_flat" THEN once
    ELSE IF Search(rule.pattern, once)
         THEN Substitute(rule.pattern, rule.replacement, once)
         ELSE once

\* C2 as stated: the leaf's groupLink ends as the replacement computed from
\* the last rule, in table order, whose pattern matches the initial groupLink
\* g, and is unchanged when no rule's pattern matches g.
C2_LastRuleMatchingInitialLinkWins ==
    Overridden =>
        \A j \in 1..Len(sci_input.kv) :
            LET g == LinkOf(last.arg.kv[j].v)
                M == MatchingRules(group_overrides, g)
                r == group_overrides[Max(M)]
            IN LinkOf(sci_input.kv[j].v) =
                   IF M = {} THEN g
                   ELSE Substitute(r.pattern, r.replacement, g)

\* C2 amended: the rules are applied in table order, each to the groupLink as
\* the rules before it left it.  The leaf's groupLink ends as what the last
\* rule whose pattern matches the groupLink current at its turn writes from
\* that groupLink; it is unchanged when no rule matches at its turn, and so
\* when no rule's pattern matches the initial groupLink g.
C2_LastAppliedRuleWins ==
    Overridden =>
        \A j \in 1..Len(sci_input.kv) :
            LET g == LinkOf(last.arg.kv[j].v)
                tr == last.ret[j]
                A == AppliedRules(group_overrides, tr)
                final == LinkOf(sci_input.kv[j].v)
            IN /\ tr[1] = g
               /\ final = tr[Len(group_overrides) + 1]
               /\ MatchingRules(group_overrides, g) = {} => final = g
               /\ A = {} => final = g
               /\ A # {} =>
                    final = Written(last.op, group_overrides[Max(A)], tr[Max(A)])

\* C2 witness: two rules were applied in turn to one leaf, the second one to
\* the link the first one wrote (its pattern does not match the initial link).
C2_Witness ==
    /\ Overridden
    /\ \E j \in 1..Len(sci_input.kv) :
          LET g == LinkOf(last.arg.kv[j].v)
              A == AppliedRules(group_overrides, last.ret[j])
          IN /\ Cardinality(A) = 2
             /\ Max(A) \notin MatchingRules(group_overrides, g)
             /\ LinkOf(sci_input.kv[j].v) # g

\* C10 as stated: for a table of one rule whose pattern matches the leaf's
\* groupLink g, group_link_override of the package leaves the template with
\* the placeholder replaced by the second capture group of the match, or the
\* literal template when the substitution fails.
C10_SubstitutedTemplate ==
    (Overridden /\ last.op = "group_link_override"
                /\ Len(group_overrides) = 1) =>
        \A j \in 1..Len(sci_input.kv) :
            LET g == LinkOf(last.arg.kv[j].v)
                r == group_overrides[1]
            IN Search(r.pattern, g) =>
                   LinkOf(sci_input.kv[j].v) =
                       Substitute(r.pattern, r.replacement, g)

(***************************************************************************)
(* Claims about crosswalker                                                 *)
(***************************************************************************)
\* What the claim says of the scalar leaf y of field x in directory sci_dir,
\* y2 being the value in its place after the call.  exactlyOne: the claim as
\* stated (annotated iff exactly one entry matches); otherwise the amended
\* one (annotated, with the first matching entry, iff some entry matches; a
\* leaf the walk did not reach before raising is unchanged).
C3_Leaf(x, sci_dir, y, y2, exactlyOne) ==
    LET M == Matches(crosswalks, x, sci_dir, cw_table) IN
    IF exactlyOne
    THEN y2 = IF Cardinality(M) = 1
              THEN Annotated(y, crosswalks[CHOOSE i \in M : TRUE])
              ELSE y
    ELSE IF M = {} THEN y2 = y
         ELSE \/ y2 = Annotated(y, crosswalks[Min(M)])
              \/ err # "none" /\ y2 = y

RECURSIVE C3_Tree(_, _, _, _)
\* the claim at every leaf of the tree a, b being the tree after the call;
\* whatever is not a str/int/float value of a mapping field is unchanged
C3_Tree(sci_dir, a, b, exactlyOne) ==
    IF ~IsDict(a) THEN b = a
    ELSE /\ IsDict(b)
         /\ Len(b.kv) = Len(a.kv)
         /\ \A i \in 1..Len(a.kv) :
               LET x == a.kv[i].k
                   y == a.kv[i].v
                   y2 == b.kv[i].v
               IN /\ b.kv[i].k = x
                  /\ IF IsPlainScalar(y) THEN C3_Leaf(x, sci_dir, y, y2, exactlyOne)
                     ELSE IF IsDict(y) THEN C3_Tree(x, y, y2, exactlyOne)
                     ELSE IF IsList(y)
                     THEN /\ IsList(y2)
                          /\ Len(y2.kv) = Len(y.kv)
                          /\ \A j \in 1..Len(y.kv) :
                                C3_Tree(x, y.kv[j].v, y2.kv[j].v, exactlyOne)
                     ELSE y2 = y

\* C3 as stated: crosswalker replaces a scalar leaf by an annotated-leaf
\* record iff exactly one crosswalk entry matches its field name (and table);
\* with zero or several matching entries the leaf is left unchanged.
C3_AnnotatedIffExactlyOneMatch ==
    (last.op = "crosswalker" /\ err = "none") =>
        C3_Tree(CentralTable(last.arg), last.arg, object_data_json, TRUE)

\* C3 amended: crosswalker replaces a scalar leaf (a str, int or float value
\* of a mapping field) by an annotated-leaf record iff at least one crosswalk
\* entry matches its field name (and table); with several matching entries
\* the record is built from the first one in table order; with none the leaf
\* is unchanged, as is every other value of the tree.
C3_AnnotatedIffSomeMatchFirstWins ==
    last.op = "crosswalker" =>
        C3_Tree(CentralTable(last.arg), last.arg, object_data_json, FALSE)

\* C3 witness: the call returned, two different entries match the root
\* record's field f, and the leaf holds the record built from the first.
C3_Witness ==
    /\ last.op = "crosswalker"
    /\ err = "none"
    /\ LET dir == CentralTable(last.arg)
           rec == Get(last.arg, dir)
           M == Matches(crosswalks, K("f"), dir, cw_table)
       IN /\ Has(rec, K("f"))
          /\ IsPlainScalar(Get(rec, K("f")))
          /\ Cardinality(M) = 2
          /\ crosswalks[Min(M)] # crosswalks[Max(M)]
          /\ Get(Get(object_data_json, dir), K("f"))
                = Annotated(Get(rec, K("f")), crosswalks[Min(M)])

(***************************************************************************)
(* Claims about flatten_json_iterative_solution                             *)
(***************************************************************************)
AllScalars(d) == IsDict(d) /\ \A i \in 1..Len(d.kv) : d.kv[i].v.t = "s"

\* C5: for every input tree the loop of flatten_json_iterative_solution ends,
\* and the mapping it returns holds no mapping and no sequence.
C5_FlattenTerminatesFlat ==
    <>(pc = "cleanup_flattened" /\ AllScalars(dictionary))

\* C5 witness: the function returned for a tree that needed several passes
\* and holds an empty sequence inside a sequence.
C5_Witness ==
    /\ pc = "cleanup_flattened"
    /\ last.op = "flatten_json_iterative_solution"
    /\ ~IsFlat(UnpackAll(last.arg))
    /\ Has(last.arg, K("T"))
    /\ Has(Get(last.arg, K("T")), K("L"))
    /\ \E i \in 1..Len(Get(Get(last.arg, K("T")), K("L")).kv) :
          Get(Get(last.arg, K("T")), K("L")).kv[i].v = List(<<>>)
    /\ AllScalars(dictionary)

(***************************************************************************)
(* SciData: identifiers (__addid, ids, __iterate_function)                  *)
(***************************************************************************)
ID == K("@id")

TYPE == K("@type")

HASH == K("#")

HASH2 == K("##")

DATA == K("data")

VALUE == K("value")

DATAPOINT == K("datapoint")

DATAGROUP == K("datagroup")

\* t in s, for strings
Contains(s, t) == \E i \in 1..(Len(s) + 1) : OccursAt(t, s, i)

\* len(s.split(c))
SplitCount(s, c) == Cardinality(Positions(s, c)) + 1

\* SciData.ids(text) for a string: the registry, sorted(set(...)), is kept
\* as the set of its entries
Ids(reg, text) == IF Contains(text, <<":">>) THEN reg \cup {text} ELSE reg

\* __addid(text): the registry after the call
addid(reg, text) ==
    IF IsStr(text)
    THEN IF Contains(text.s.val, <<":", "/", "/">>) THEN reg
         ELSE IF SplitCount(text.s.val, ":") > 1 THEN reg
         ELSE IF Contains(text.s.val, <<":">>) THEN Ids(reg, text.s.val)
         ELSE reg
    ELSE reg

\* the position of the last but n-th slash of uid
SlashFromEnd(uid, n) ==
    CHOOSE p \in Positions(uid, "/") :
        Cardinality({q \in Positions(uid, "/") : q > p}) = n

\* enumuid(uid): uid.rsplit('/', 2), the number between the last two
\* slashes raised by one
enumuid(uid) ==
    SubSeq(uid, 1, SlashFromEnd(uid, 1) - 1) \o <<"/">>
        \o Str(IntOf(SubSeq(uid, SlashFromEnd(uid, 1) + 1,
                            SlashFromEnd(uid, 0) - 1)) + 1)
        \o <<"/">>

\* an identifier search that takes the candidate as it is
FirstCandidate(uid, uidindex) == uid

RECURSIVE NextFree(_, _)
\* while uid in uidindex: uid = enumuid(uid)
NextFree(uid, uidindex) ==
    IF \E i \in 1..Len(uidindex) : uidindex[i] = uid
    THEN NextFree(enumuid(uid), uidindex)
    ELSE uid

\* the result of __iterate_function: the item, the identifiers in use, the
\* registry, and the exception raised ("none" when it returns)
Iterated(item, uidindex, reg, e) ==
    [item |-> item, uidindex |-> uidindex, ids |-> reg, err |-> e]

\* temp[key] = the item of r
Stored(prev, key, r) ==
    Iterated(Put(prev.item, key, r.item), r.uidindex, r.ids, r.err)

\* value[i] = the item of r
Replaced(prev, r) ==
    Iterated(Append(prev.item, r.item), r.uidindex, r.ids, r.err)

\* the category of a record
Category(it) ==
    IF Has(it, ID) THEN Get(it, ID)
    ELSE IF Has(it, K("descriptors")) \/ Has(it, K("identifiers"))
    THEN W("compound")
    ELSE W("undefined")

RECURSIVE iterate_function(_, _, _, _)

\* value[i], uidindex = self.__iterate_function(listentry, uidindex, listuid)
iterate_entry(prev, listentry, listuid) ==
    IF prev.err # "none" THEN prev
    ELSE Replaced(prev, iterate_function(listentry, prev.uidindex, prev.ids,
                                         listuid))

\* for i, listentry in enumerate(value): ...; the list of the new entries
iterate_list(value, start, listuid) ==
    LET G[j \in 0..Len(value.kv)] ==
            IF j = 0 THEN Iterated(<<>>, start.uidindex, start.ids, "none")
            ELSE iterate_entry(G[j - 1], value.kv[j].v, listuid)
    IN [G[Len(value.kv)] EXCEPT !.item = List(@)]

\* the body of "for key, value in it.items()"
iterate_item(prev, key, value, uid) ==
    IF prev.err # "none" \/ key = ID THEN prev
    ELSE IF IsList(value)
    THEN Stored(prev, key, iterate_list(value, prev, uid))
    ELSE IF IsDict(value)
    THEN Stored(prev, key,
                iterate_function(value, prev.uidindex, prev.ids, uid))
    ELSE Iterated(Put(prev.item, key, value), prev.uidindex,
                  addid(prev.ids, value), "none")

\* __iterate_function for a dict of category cat that is given uid
iterate_dict(it, uidindex, reg, cat, uid) ==
    LET F[i \in 0..Len(it.kv)] ==
            IF i = 0
            THEN Iterated(Dict(<< KV(ID, StrV(uid)),
                                  KV(TYPE, StrV(<<"sdo", ":">> \o cat)) >>),
                          Append(uidindex, uid), reg, "none")
            ELSE iterate_item(F[i - 1], it.kv[i].k, it.kv[i].v, uid)
    IN F[Len(it.kv)]

\* __iterate_function(it, uidindex, uid); uid = <<>> stands for False
iterate_function(it, uidindex, reg, uid) ==
    IF IsStr(it) THEN Iterated(it, uidindex, addid(reg, it), "none")
    ELSE IF it.t = "s"          \* '@id' in it, for an int, a float or None
    THEN Iterated(it, uidindex, reg, "TypeError")
    ELSE IF IsList(it)          \* it['@id'] or it.items(), for a list
    THEN Iterated(it, uidindex, reg,
                  IF \E i \in 1..Len(it.kv) : it.kv[i].v = W("@id")
                  THEN "TypeError" ELSE "AttributeError")
    ELSE IF ~IsStr(Category(it)) THEN Iterated(it, uidindex, reg, "TypeError")
    ELSE iterate_dict(it, uidindex, reg, Category(it).s.val,
                      NextFree(uid \o Category(it).s.val \o <<"/", "1", "/">>,
                               uidindex))

\* curr.append(item), or the exception passed on
append_item(prev, r) ==
    IF r.err # "none" THEN [prev EXCEPT !.err = r.err, !.ids = r.ids]
    ELSE [items |-> Append(prev.items, r.item),
          added |-> Append(prev.added, r.item),
          uidindex |-> r.uidindex, ids |-> r.ids, err |-> "none"]

\* item, uidindex = self.__iterate_function(listentry, uidindex)
append_entry(prev, listentry) ==
    IF prev.err # "none" THEN prev
    ELSE append_item(prev, iterate_function(listentry, prev.uidindex,
                                            prev.ids, <<>>))

\* the loop of aspects, facets and datapoint: every entry of the argument
\* iterated with the uidindex of this call and appended to the section
AppendAll(curr, entries, reg) ==
    LET F[i \in 0..Len(entries.kv)] ==
            IF i = 0 THEN [items |-> curr, added |-> <<>>, uidindex |-> <<>>,
                           ids |-> reg, err |-> "none"]
            ELSE append_entry(F[i - 1], entries.kv[i].v)
    IN F[Len(entries.kv)]

(***************************************************************************)
(* SciData.scilinker                                                        *)
(***************************************************************************)
False == Sc("bool", <<"False">>)

\* d.get(k, False)
GetOr(d, k) == IF Has(d, k) THEN Get(d, k) ELSE False

\* entry.get('value', {})
ValueOf(entry) == IF Has(entry, VALUE) THEN Get(entry, VALUE) ELSE EmptyDict

\* bin_data_entry.get('value', {}).get(h, False): the value, or the
\* exception of calling get on what is not a dict
EntryRef(entry, h) ==
    IF ~IsDict(entry) THEN [err |-> "AttributeError", ref |-> False]
    ELSE IF ~IsDict(ValueOf(entry)) THEN [err |-> "AttributeError", ref |-> False]
    ELSE [err |-> "none", ref |-> GetOr(ValueOf(entry), h)]

\* the entries "for bin_data_entry in bin_data" visits, bin_data being
\* rec.get('data', False) when it is truthy; a truthy value that is not a
\* list yields elements that are not dicts
DataEntries(rec) ==
    IF ~GetTruthy(rec, DATA) THEN <<>>
    ELSE IF IsList(Get(rec, DATA)) THEN Elems(Get(rec, DATA))
    ELSE <<None>>

\* the datapoints of the document (none while the key is absent)
Datapoints(dset) ==
    IF Has(dset, DATAPOINT) THEN Elems(Get(dset, DATAPOINT)) ELSE <<>>

\* inputsets: the datapoints, the aspects and the facets, each the sequence
\* of its records
InputSets(dset, asp, fac) == <<Datapoints(dset), Elems(asp), Elems(fac)>>

\* the records of the three input sets in the order the loops visit them:
\* <<set, index>>
Cells(sets) ==
    [j \in 1..Len(sets[1]) |-> <<1, j>>]
        \o [j \in 1..Len(sets[2]) |-> <<2, j>>]
        \o [j \in 1..Len(sets[3]) |-> <<3, j>>]

\* the record at a cell
RecAt(st, c) == st.sets[c[1]][c[2]]

Raised(st, e) == [st EXCEPT !.err = e]

\* list(xs): the elements with their duplicates
KeepDuplicates(xs) == xs

\* list(set(xs)): the elements without duplicates.  The order of the result
\* is not determined by the code; the model keeps the order of first
\* occurrence and no definition reads the order of such a list.
SetList(xs) ==
    SelectIdx(xs, LAMBDA i : \A j \in 1..(i - 1) : xs[j] # xs[i])

\* re.search(find, zin) for a target template used as a pattern: the text
\* matches itself; a placeholder left in it starts with '$', the end of the
\* string, and is followed by "!@%", which nothing matches
TemplateSearch(find, zin) ==
    /\ \A i \in 1..Len(find) : find[i] # PH
    /\ Contains(zin, find)

\* sci_bin_reg[k] = v, sci_bin_reg being the record at cell c
Linked(st, c, k, v) == [st EXCEPT !.sets[c[1]][c[2]] = Put(@, k, v)]

\* the branch of reg_replace for a truthy sci_bin_reg.get(k): many is
\* list(set(...)) of the present value or values and zbin['@id']
reg_merge(st, cur, zid, many, k, c) ==
    IF \E i \in 1..Len(many) : many[i].t # "s"      \* unhashable
    THEN Raised(st, "TypeError")
    ELSE IF IsList(cur) \/ Len(many) # 1 THEN Linked(st, c, k, List(many))
    ELSE Linked(st, c, k, zid)

\* the body of reg_replace once find is found in zin
reg_write(st, cur, zid, k, c) ==
    IF ~Truthy(cur) THEN Linked(st, c, k, zid)
    ELSE reg_merge(st, cur, zid,
                   SetList(IF IsList(cur) THEN Append(Elems(cur), zid)
                           ELSE <<cur, zid>>),
                   k, c)

\* reg_replace(find, zin, zbin, k, sci_bin_reg), sci_bin_reg being the
\* record at cell c
reg_replace(st, find, zin, zbin, k, c) ==
    IF ~IsStr(zin) THEN Raised(st, "TypeError")
    ELSE IF ~TemplateSearch(find, zin.s.val) THEN st
    ELSE IF ~Has(zbin, ID) THEN Raised(st, "KeyError")
    ELSE reg_write(st, GetOr(RecAt(st, c), k), Get(zbin, ID), k, c)

\* one entry of "for zbin_data_entry in zbin_data"; e is its reference
scan_entry(prev, e, zc, find, k, c) ==
    IF prev.err # "none" THEN prev
    ELSE IF e.err # "none" THEN Raised(prev, e.err)
    ELSE IF ~Truthy(e.ref) THEN prev
    ELSE reg_replace(prev, find, e.ref, RecAt(prev, zc), k, c)

\* zbin_data = zbin.get('data', False) and the loop over its entries
scan_data(st, entries, zc, find, k, c) ==
    LET G[j \in 0..Len(entries)] ==
            IF j = 0 THEN st
            ELSE scan_entry(G[j - 1], EntryRef(entries[j], HASH), zc, find, k, c)
    IN G[Len(entries)]

\* zy = zbin.get('#', False) and the call of reg_replace for it
scan_own(st, zy, zc, find, k, c) ==
    IF Truthy(zy) THEN reg_replace(st, find, zy, RecAt(st, zc), k, c) ELSE st

\* the data entries of the record at a cell, none when an exception is out
EntriesAt(st, c) == IF st.err # "none" THEN <<>> ELSE DataEntries(RecAt(st, c))

\* the body of "for zbin in inp_loop" for the record at cell zc
scan_data_of(own, zc, find, k, c) ==
    scan_data(own, EntriesAt(own, zc), zc, find, k, c)

scan_cell(prev, zc, find, k, c) ==
    IF prev.err # "none" THEN prev
    ELSE scan_data_of(scan_own(prev, GetOr(RecAt(prev, zc), HASH), zc, find,
                               k, c),
                      zc, find, k, c)

\* the scan of scilinkerloop for one relation k and one target find: every
\* record of the input sets, by its own reference and by the references of
\* its data entries
ScanTargets(st, find, k, c) ==
    LET F[n \in 0..Len(Cells(st.sets))] ==
            IF n = 0 THEN st
            ELSE scan_cell(F[n - 1], Cells(st.sets)[n], find, k, c)
    IN F[Len(Cells(st.sets))]

\* a link rule: the pattern and its targets, relation name and template
LinkRule(pattern, targets) == [pattern |-> pattern, targets |-> targets]

Target(k, v) == [k |-> k, v |-> v]

\* the body of "for k, v in sci_to.items()": find, then the scan
link_target(prev, pattern, target, newput, c) ==
    IF prev.err # "none" THEN prev
    ELSE ScanTargets(prev, Substitute(pattern, target.v, newput),
                     target.k, c)

\* "for k, v in sci_to.items()" for one rule
link_targets(st, rule, newput, c) ==
    LET G[j \in 0..Len(rule.targets)] ==
            IF j = 0 THEN st
            ELSE link_target(G[j - 1], rule.pattern, rule.targets[j], newput, c)
    IN G[Len(rule.targets)]

\* the body of "for sci_from, sci_to in sciloop_links.items()"
link_rule(prev, rule, newput, c) ==
    IF prev.err # "none" THEN prev
    ELSE IF ~IsStr(newput) THEN Raised(prev, "TypeError")
    ELSE IF Search(rule.pattern, newput.s.val)
    THEN link_targets(prev, rule, newput.s.val, c)
    ELSE prev

\* scilinkerloop(newput, sciloop_links, sci_bin_loop), sci_bin_loop being
\* the record at cell c
scilinkerloop(st, newput, links, c) ==
    LET F[n \in 0..Len(links)] ==
            IF n = 0 THEN st
            ELSE link_rule(F[n - 1], links[n], newput, c)
    IN F[Len(links)]

\* a reference that falls back on the original group link
OwnRefOrOriginal(rec) ==
    IF Has(rec, HASH) THEN Get(rec, HASH) ELSE GetOr(rec, HASH2)

\* y = sci_bin.get('#', False)
OwnRef(rec) == GetOr(rec, HASH)

\* one entry of "for bin_data_entry in bin_data"; e is its reference
link_entry(prev, e, links, c) ==
    IF prev.err # "none" THEN prev
    ELSE IF e.err # "none" THEN Raised(prev, e.err)
    ELSE IF ~Truthy(e.ref) THEN prev
    ELSE scilinkerloop(prev, e.ref, links, c)

\* bin_data = sci_bin.get('data', False) and the loop over its entries
link_data(st, entries, links, c) ==
    LET G[j \in 0..Len(entries)] ==
            IF j = 0 THEN st
            ELSE link_entry(G[j - 1], EntryRef(entries[j], HASH), links, c)
    IN G[Len(entries)]

\* y = sci_bin.get('#', False) and the call of scilinkerloop for it
link_own(st, y, links, c) ==
    IF Truthy(y) THEN scilinkerloop(st, y, links, c) ELSE st

link_data_of(own, links, c) == link_data(own, EntriesAt(own, c), links, c)

\* the body of "for sci_bin in inp" for the record at cell c
link_cell(prev, links, c) ==
    IF prev.err # "none" THEN prev
    ELSE link_data_of(link_own(prev, OwnRef(RecAt(prev, c)), links, c),
                      links, c)

\* scilinker(sci_links) on the input sets: the sets after the call and the
\* exception raised
scilinker(sets, links) ==
    LET F[n \in 0..Len(Cells(sets))] ==
            IF n = 0 THEN [sets |-> sets, err |-> "none"]
            ELSE link_cell(F[n - 1], links, Cells(sets)[n])
    IN F[Len(Cells(sets))]

(***************************************************************************)
(* SciData.datagroup                                                        *)
(***************************************************************************)
GroupRule(k, v) == [k |-> k, v |-> v]

\* the datapoints a pass of "for sci_bin in inp" collects: those whose
\* field groupk is truthy and equals groupvr
GroupHits(inp, groupk, groupvr) ==
    SelectIdx(inp, LAMBDA i : /\ GetTruthy(inp[i], groupk)
                              /\ Get(inp[i], groupk) = StrV(groupvr))

\* group_datapoints after the pass
GroupIds(hits) == [i \in 1..Len(hits) |-> Get(hits[i], ID)]

\* the datapoints after the pass: sci_bin.pop(groupk) wherever the field is
\* truthy
GroupPopped(inp, groupk) ==
    [i \in 1..Len(inp) |->
        IF GetTruthy(inp[i], groupk) THEN Pop(inp[i], groupk) ELSE inp[i]]

\* the datagroup node
GroupNode(group_num, groupk, groupvr, group_datapoints) ==
    Dict(<< KV(ID, StrV(<<"datagroup", "/">> \o Str(group_num) \o <<"/">>)),
            KV(TYPE, StrV(<<"sdo", ":", "datagroup">>)),
            KV(groupk, StrV(groupvr)),
            KV(K("datapoints"), List(group_datapoints)) >>)

RECURSIVE group_while(_, _, _, _)

\* the end of one pass of "while groupcount:": a group is emitted and the
\* loop goes on with groupcount as it is, or the loop ends
group_pass(g, groupk, groupv, groupcount, groupvr, group_datapoints) ==
    IF group_datapoints # <<>>
    THEN group_while([ inp |-> GroupPopped(g.inp, groupk),
                       datagroups |-> Append(g.datagroups,
                           GroupNode(g.group_num, groupk, groupvr,
                                     group_datapoints)),
                       group_num |-> g.group_num + 1 ],
                     groupk, groupv, groupcount)
    ELSE [g EXCEPT !.inp = GroupPopped(g.inp, groupk)]

\* the instantiated value of a pass and the datapoints that carry it
group_value(g, groupk, groupv, groupcount, groupvr) ==
    group_pass(g, groupk, groupv, groupcount, groupvr,
               GroupIds(GroupHits(g.inp, groupk, groupvr)))

\* "while groupcount:" for one group rule; g holds inp, datagroups and
\* group_num
group_while(g, groupk, groupv, groupcount) ==
    group_value(g, groupk, groupv, groupcount,
                ReplaceSym(groupv, PH, Str(groupcount)))

\* "for groupk, groupv in sci_groups.items()", groupcount = 1
group_rules(inp, groups) ==
    LET F[n \in 0..Len(groups)] ==
            IF n = 0 THEN [inp |-> inp, datagroups |-> <<>>, group_num |-> 1]
            ELSE group_while(F[n - 1], groups[n].k, groups[n].v, 1)
    IN F[Len(groups)]

\* dataset['datagroup'] = datagroups; dataset['datapoint'] =
\* dataset.pop('datapoint'), which raises while the key is absent
group_store(dset, g) ==
    IF Has(dset, DATAPOINT)
    THEN [dataset |-> Put(Put(Pop(dset, DATAPOINT), DATAGROUP,
                              List(g.datagroups)),
                          DATAPOINT, List(g.inp)),
          err |-> "none"]
    ELSE [dataset |-> Put(dset, DATAGROUP, List(g.datagroups)),
          err |-> "KeyError"]

\* datagroup(sci_groups): the dataset after the call and the exception
\* raised
datagroup(dset, groups) == group_store(dset, group_rules(Datapoints(dset), groups))

(***************************************************************************)
(* SciData.scicleanup                                                       *)
(***************************************************************************)
\* a cleanup of a data entry that leaves its value wrapper as it is
clean_entry_kept(prev, entry, e, hashe) ==
    [prev EXCEPT !.entries = Append(@, entry)]

\* bin_data_entry['value'].pop(hashe) where the entry's reference is truthy
clean_entry(prev, entry, e, hashe) ==
    IF prev.err # "none" THEN [prev EXCEPT !.entries = Append(@, entry)]
    ELSE IF e.err # "none" THEN [entries |-> Append(prev.entries, entry),
                                 err |-> e.err]
    ELSE IF Truthy(e.ref)
    THEN [prev EXCEPT !.entries =
             Append(@, Put(entry, VALUE, Pop(Get(entry, VALUE), hashe)))]
    ELSE [prev EXCEPT !.entries = Append(@, entry)]

\* "for bin_data_entry in bin_data" for one key
clean_entries(entries, hashe) ==
    LET G[j \in 0..Len(entries)] ==
            IF j = 0 THEN [entries |-> <<>>, err |-> "none"]
            ELSE clean_entry(G[j - 1], entries[j], EntryRef(entries[j], hashe),
                             hashe)
    IN G[Len(entries)]

\* the record with its cleaned data entries
clean_data(sci_bin, done) ==
    IF GetTruthy(sci_bin, DATA) /\ IsList(Get(sci_bin, DATA))
    THEN [rec |-> Put(sci_bin, DATA, List(done.entries)), err |-> done.err]
    ELSE [rec |-> sci_bin, err |-> done.err]

\* a cleanup that leaves the data entries of the record alone
clean_own_only(sci_bin, hashe) == [rec |-> sci_bin, err |-> "none"]

\* the record with the key popped where it is truthy, then its data
clean_own(sci_bin, hashe) ==
    clean_data(sci_bin, clean_entries(DataEntries(sci_bin), hashe))

\* the body of "for hashe in hashes" for one record
cleanup_key(r, hashe) ==
    IF r.err # "none" THEN r
    ELSE clean_own(IF GetTruthy(r.rec, hashe) THEN Pop(r.rec, hashe) ELSE r.rec,
                   hashe)

\* the record at cell c replaced by the cleaned one
clean_store(prev, c, r) ==
    [sets |-> [prev.sets EXCEPT ![c[1]][c[2]] = r.rec], err |-> r.err]

\* the body of "for sci_bin in inp": hashes = ['#', '##']
clean_cell(prev, c) ==
    IF prev.err # "none" THEN prev
    ELSE clean_store(prev, c,
             cleanup_key(cleanup_key([rec |-> RecAt(prev, c), err |-> "none"],
                                     HASH),
                         HASH2))

\* scicleanup() on the input sets: the sets after the call and the
\* exception raised
scicleanup(sets) ==
    LET F[n \in 0..Len(Cells(sets))] ==
            IF n = 0 THEN [sets |-> sets, err |-> "none"]
            ELSE clean_cell(F[n - 1], Cells(sets)[n])
    IN F[Len(Cells(sets))]

(***************************************************************************)
(* Bounded inputs of the SciData methods                                    *)
(***************************************************************************)
\* most records a document holds (over its three sections)
MaxRecords == 4

CompoundLink == <<"compounds", "/", "compound">>

Number(whole, frac) == Sc("float", Str(whole) \o <<".">> \o Str(frac))

\* a grouped methodology record after remove_extra_metadata, for the model
\* of the n-th repetition
ModelRecord(n) ==
    Dict(<< KV(ID, W("model")), KV(K("name"), W("TEST")),
            KV(HASH, StrV(QsarLink(n, "model"))),
            KV(HASH2, StrV(QsarLink(n, "model"))) >>)

\* a grouped system record after remove_extra_metadata
CompoundRecord ==
    Dict(<< KV(ID, W("compound")), KV(K("smiles"), W("CCC")),
            KV(HASH, StrV(CompoundLink)), KV(HASH2, StrV(CompoundLink)) >>)

CrystalRecord(n) ==
    Dict(<< KV(ID, W("crystal")), KV(K("name"), W("form")),
            KV(HASH, StrV(<<"crystals", ";">> \o Str(n) \o <<"/", "crystal">>)) >>)

\* a datum as datasetmodder builds it; ref = <<>> for no reference in the
\* value
Datum(sub, key, v, ref) ==
    Dict(<< KV(ID, W("datum")), KV(TYPE, StrV(<<"sdo", ":", sub>>)),
            KV(VALUE, Dict(<< KV(ID, W("value")),
                              KV(TYPE, StrV(<<"sdo", ":", "value">>)),
                              KV(key, v) >>
                           \o (IF ref = <<>> THEN <<>>
                               ELSE <<KV(HASH, StrV(ref))>>))) >>)

\* a datapoint as datasetmodder builds it: in the package the references
\* are on the datapoint, in the top-level module on the values
Point(own, nested, extra) ==
    Dict(<< KV(ID, W("datapoint")), KV(TYPE, StrV(<<"sdo", ":", "datapoint">>)),
            KV(DATA, List(<< Datum("exptdata", K("result_value"),
                                   Number(0, 89), nested),
                             Datum("suppdata", K("report_filename"),
                                   W("report"), nested) >>)) >>
         \o (IF own = <<>> THEN <<>>
             ELSE <<KV(HASH, StrV(own)), KV(HASH2, StrV(own))>>)
         \o extra)

CrystalId(n) == <<"crystal", "/">> \o Str(n) \o <<"/">>

\* a datapoint without references that carries a crystal identifier and the
\* original group link only
CrystalPoint(n) ==
    Point(<<>>, <<>>, << KV(HASH2, StrV(QsarLink(n, "data"))),
                         KV(K("crystal"), StrV(CrystalId(n))) >>)

AspectLists ==
    { List(<<ModelRecord(0)>>), List(<<ModelRecord(1), ModelRecord(0)>>) }

FacetLists ==
    { List(<<CompoundRecord>>), List(<<CrystalRecord(1), CrystalRecord(2)>>) }

PointLists ==
    { List(<<Point(QsarLink(0, "data"), <<>>, <<>>)>>),
      List(<<Point(QsarLink(0, "data"), <<>>, <<>>),
             Point(QsarLink(1, "data"), <<>>, <<>>)>>),
      List(<<CrystalPoint(1), CrystalPoint(2),
             Point(<<>>, QsarLink(0, "data"), <<>>)>>) }

\* example.py: sci_links
SampleLinks ==
    << LinkRule(QsarPattern("data"),
                << Target(K("model"), QsarTemplate("model")),
                   Target(K("compound"), CompoundLink) >>) >>

\* link rules for crystals: the crystal of the same index, then, by a
\* pattern without groups, every crystal
CrystalLinks ==
    << LinkRule(QsarPattern("data"),
                <<Target(K("crystal"), <<"crystals", ";", PH, "/", "crystal">>)>>),
       LinkRule(Pat(<<Lit(<<"/", "data">>)>>, FALSE),
                <<Target(K("model"), QsarTemplate("model")),
                  Target(K("crystal"), <<"/", "crystal">>)>>) >>

\* example.py: sci_groups
SampleGroups == <<GroupRule(K("crystal"), <<"crystal", "/", PH, "/">>)>>

\* group rules over the relations the sample links attach
RelationGroups ==
    << GroupRule(K("model"), <<"model", "/", PH, "/">>),
       GroupRule(K("compound"), <<"compound", "/", "1", "/">>) >>

\* the rule tables of a run: link rules and group rules
RuleTables ==
    { [links |-> SampleLinks, groups |-> RelationGroups],
      [links |-> CrystalLinks, groups |-> SampleGroups] }

(***************************************************************************)
(* SpecDoc: a document built by aspects, facets and datapoint in any order, *)
(* then linked, grouped and cleaned in any order                            *)
(***************************************************************************)
RecordCount == Len(aspects.kv) + Len(facets.kv) + Len(Datapoints(dataset))

\* the sections written back after a method has changed records in place
WriteBack(sets) ==
    /\ dataset' = IF Has(dataset, DATAPOINT)
                  THEN Put(dataset, DATAPOINT, List(sets[1])) ELSE dataset
    /\ aspects' = List(sets[2])
    /\ facets' = List(sets[3])

pipeVars ==
    <<object_data_json, crosswalks, cw_table, dictionary, sci_input,
      group_overrides, bins, bins_grouped, datasetmod>>

InitDoc ==
    /\ pc = "build"
    /\ err = "none"
    /\ DocInit
    /\ \E t \in RuleTables : sci_links = t.links /\ sci_groups = t.groups
    /\ group_overrides = <<>>
    /\ dictionary = EmptyDict
    /\ sci_input = EmptyDict
    /\ TreeIdle /\ BinIdle
    /\ last = NoCall

Returned(e, next) == IF e = "none" THEN next ELSE "raised"

\* SciData.aspects(aspects)
Aspects ==
    /\ pc = "build"
    /\ \E arg \in AspectLists :
          /\ RecordCount + Len(arg.kv) <= MaxRecords
          /\ LET r == AppendAll(Elems(aspects), arg, ids)
             IN /\ aspects' = List(r.items)
                /\ ids' = r.ids
                /\ err' = r.err
                /\ pc' = Returned(r.err, "build")
                /\ last' = Call("aspects", arg, List(r.added))
    /\ UNCHANGED <<facets, dataset, sci_links, sci_groups, pipeVars>>

\* SciData.facets(facets)
Facets ==
    /\ pc = "build"
    /\ \E arg \in FacetLists :
          /\ RecordCount + Len(arg.kv) <= MaxRecords
          /\ LET r == AppendAll(Elems(facets), arg, ids)
             IN /\ facets' = List(r.items)
                /\ ids' = r.ids
                /\ err' = r.err
                /\ pc' = Returned(r.err, "build")
                /\ last' = Call("facets", arg, List(r.added))
    /\ UNCHANGED <<aspects, dataset, sci_links, sci_groups, pipeVars>>

\* SciData.datapoint(points): the key is set when the loop has finished; a
\* list that exists is appended to in place
Datapoint ==
    /\ pc = "build"
    /\ \E arg \in PointLists :
          /\ RecordCount + Len(arg.kv) <= MaxRecords
          /\ LET r == AppendAll(Datapoints(dataset), arg, ids)
             IN /\ dataset' = IF r.err = "none" \/ Has(dataset, DATAPOINT)
                              THEN Put(dataset, DATAPOINT, List(r.items))
                              ELSE dataset
                /\ ids' = r.ids
                /\ err' = r.err
                /\ pc' = Returned(r.err, "build")
                /\ last' = Call("datapoint", arg, List(r.added))
    /\ UNCHANGED <<aspects, facets, sci_links, sci_groups, pipeVars>>

\* SciData.scilinker(sci_links)
Scilinker ==
    /\ pc \in {"build", "link"}
    /\ LET sets == InputSets(dataset, aspects, facets)
           r == scilinker(sets, sci_links)
       IN /\ WriteBack(r.sets)
          /\ err' = r.err
          /\ pc' = Returned(r.err, "link")
          /\ last' = Call("scilinker", EmptyDict, EmptyDict)
    /\ UNCHANGED <<ids, sci_links, sci_groups, pipeVars>>

\* SciData.datagroup(sci_groups)
Datagroup ==
    /\ pc \in {"build", "link"}
    /\ LET r == datagroup(dataset, sci_groups)
       IN /\ dataset' = r.dataset
          /\ err' = r.err
          /\ pc' = Returned(r.err, "link")
          /\ last' = Call("datagroup", List(Datapoints(dataset)),
                          IF Has(r.dataset, DATAGROUP)
                          THEN Get(r.dataset, DATAGROUP) ELSE List(<<>>))
    /\ UNCHANGED <<aspects, facets, ids, sci_links, sci_groups, pipeVars>>

\* SciData.scicleanup()
Scicleanup ==
    /\ pc \in {"build", "link"}
    /\ LET sets == InputSets(dataset, aspects, facets)
           r == scicleanup(sets)
       IN /\ WriteBack(r.sets)
          /\ err' = r.err
          /\ pc' = Returned(r.err, "link")
          /\ last' = Call("scicleanup", EmptyDict, EmptyDict)
    /\ UNCHANGED <<ids, sci_links, sci_groups, pipeVars>>

NextDoc ==
    \/ Aspects
    \/ Facets
    \/ Datapoint
    \/ Scilinker
    \/ Datagroup
    \/ Scicleanup

SpecDoc == InitDoc /\ [][NextDoc]_vars

\* C12: flatten_json_iterative_solution applied to a single-level mapping
\* (every value a scalar) returns a mapping equal to its input: the same
\* keys in the same order with the same values.
C12_FlatInputUnchanged ==
    (/\ pc = "cleanup_flattened"
     /\ last.op = "flatten_json_iterative_solution"
     /\ AllScalars(last.arg))
        => dictionary = last.arg

\* the function has returned for a single-level mapping of two keys
C12_Witness ==
    /\ pc = "cleanup_flattened"
    /\ last.op = "flatten_json_iterative_solution"
    /\ AllScalars(last.arg)
    /\ Len(last.arg.kv) = 2
    /\ last.arg.kv[1].k = K("g")
    /\ dictionary = last.arg

(***************************************************************************)
(* Claims about the SciData methods                                         *)
(***************************************************************************)
RECURSIVE RecordIds(_)
\* the @id of every record (dict) of a value, at every depth; None for a
\* record without one
RecordIds(x) ==
    IF x.t = "s" THEN <<>>
    ELSE LET F[i \in 0..Len(x.kv)] ==
                 IF i = 0
                 THEN IF IsDict(x)
                      THEN <<IF Has(x, ID) THEN Get(x, ID) ELSE None>>
                      ELSE <<>>
                 ELSE F[i - 1] \o RecordIds(x.kv[i].v)
         IN F[Len(x.kv)]

AllDistinct(seq) == \A i, j \in 1..Len(seq) : seq[i] = seq[j] => i = j

Adding == last.op \in {"aspects", "facets", "datapoint"}

\* C1: the records produced by one call of aspects, facets or datapoint, at
\* every depth (records nested in lists and in mappings included), each
\* have an @id that is a string, and no two of these @ids are equal.
C1_SiblingIdsUnique ==
    Adding =>
        /\ \A i \in 1..Len(RecordIds(last.ret)) : IsStr(RecordIds(last.ret)[i])
        /\ AllDistinct(RecordIds(last.ret))

\* a call that produced two datapoints with two datum each, the second
\* datapoint and the second datum of each enumerated
C1_Witness ==
    /\ last.op = "datapoint"
    /\ Len(RecordIds(last.ret)) >= 10
    /\ \E i \in 1..Len(RecordIds(last.ret)) :
          RecordIds(last.ret)[i] =
              StrV(<<"datapoint", "/", "2", "/", "datum", "/", "2", "/">>)

\* the value a group rule instantiates at index i
GroupValue(rule, i) == StrV(ReplaceSym(rule.v, PH, Str(i)))

\* the identifiers of the datapoints that carry value v in field k
Carriers(points, k, v) ==
    LET hit == SelectIdx(points, LAMBDA i : Has(points[i], k)
                                            /\ Get(points[i], k) = v)
    IN [i \in 1..Len(hit) |-> Get(hit[i], ID)]

\* C4: datagroup tries the indices 1, 2, 3, ... of a group rule in
\* increasing order: for every index i such that, for each of 1..i, some
\* datapoint carried the value instantiated at it, a group node for index i
\* is emitted that holds the instantiated value and the datapoints that
\* carried it.
C4_GroupPerIndex ==
    (last.op = "datagroup" /\ err = "none") =>
        \A n \in 1..Len(sci_groups) : \A i \in 1..Len(last.arg.kv) :
            (\A j \in 1..i :
                Carriers(Elems(last.arg), sci_groups[n].k,
                         GroupValue(sci_groups[n], j)) # <<>>)
            => \E g \in 1..Len(last.ret.kv) :
                  /\ Has(last.ret.kv[g].v, sci_groups[n].k)
                  /\ Get(last.ret.kv[g].v, sci_groups[n].k)
                        = GroupValue(sci_groups[n], i)
                  /\ Get(last.ret.kv[g].v, K("datapoints"))
                        = List(Carriers(Elems(last.arg), sci_groups[n].k,
                                        GroupValue(sci_groups[n], i)))

\* the references of a record: its own and those of the values of its data
\* entries
RefsOf(rec) ==
    (IF Has(rec, HASH) THEN {Get(rec, HASH)} ELSE {})
        \cup {Get(ValueOf(e), HASH) :
                e \in {x \in {DataEntries(rec)[i] : i \in 1..Len(DataEntries(rec))} :
                          IsDict(x) /\ IsDict(ValueOf(x)) /\ Has(ValueOf(x), HASH)}}

\* the records of the three sections
AllRecords(dset, asp, fac) ==
    {InputSets(dset, asp, fac)[c[1]][c[2]] :
        c \in {Cells(InputSets(dset, asp, fac))[n] :
                  n \in 1..Len(Cells(InputSets(dset, asp, fac)))}}

\* C6: a record that bears no reference field ('#'), neither its own nor in
\* the value of a data entry, acquires no relation field from scilinker:
\* the record is the same before and after the call.
C6_NoReferenceNoRelation ==
    [][last'.op = "scilinker" =>
          \A c \in {Cells(InputSets(dataset, aspects, facets))[n] :
                       n \in 1..Len(Cells(InputSets(dataset, aspects, facets)))} :
              RefsOf(InputSets(dataset, aspects, facets)[c[1]][c[2]]) = {}
              => InputSets(dataset', aspects', facets')[c[1]][c[2]]
                    = InputSets(dataset, aspects, facets)[c[1]][c[2]]]_vars

\* scilinker has attached a relation to a datapoint that bears a reference
\* and none to a datapoint that bears none
C6_Witness ==
    /\ last.op = "scilinker"
    /\ \E a, b \in AllRecords(dataset, aspects, facets) :
          /\ RefsOf(a) = {} /\ ~Has(a, K("compound")) /\ Has(a, HASH2)
          /\ RefsOf(b) # {} /\ Has(b, K("compound"))

\* the identifiers of the records a target text is found in
TargetIds(find) ==
    {Get(r, ID) : r \in {x \in AllRecords(dataset, aspects, facets) :
                            \E ref \in RefsOf(x) :
                                IsStr(ref) /\ Contains(ref.s.val, find)}}

\* the datapoints whose own reference is that of the data of repetition n
DataOf(n) ==
    {d \in {Datapoints(dataset)[i] : i \in 1..Len(Datapoints(dataset))} :
        Has(d, HASH) /\ Get(d, HASH) = StrV(QsarLink(n, "data"))}

\* the identifiers a relation field holds
RelationIds(d, k) ==
    IF ~Has(d, k) THEN {}
    ELSE IF IsList(Get(d, k)) THEN {Get(d, k).kv[i].v : i \in 1..Len(Get(d, k).kv)}
    ELSE {Get(d, k)}

\* the repetition indices of the bounded inputs
Repetitions == 0..1

\* C8: under the sample link rules a datapoint with reference
\* "compounds;qsar_predicted_properties;<n>/data" gets the relation 'model'
\* equal to the identifier of the aspect with reference
\* "compounds;qsar_predicted_properties;<n>/model", a scalar when there is
\* one such identifier, and the relation 'compound' equal to the identifier
\* of the facet with reference "compounds/compound"; an aspect of another
\* index is not linked.
C8_SampleLinkRule ==
    (last.op = "scilinker" /\ err = "none" /\ sci_links = SampleLinks) =>
        \A n \in Repetitions : \A d \in DataOf(n) :
            /\ \A id \in TargetIds(QsarLink(n, "model")) :
                  TargetIds(QsarLink(n, "model")) = {id}
                  => Has(d, K("model")) /\ Get(d, K("model")) = id
            /\ \A id \in TargetIds(CompoundLink) :
                  TargetIds(CompoundLink) = {id}
                  => Has(d, K("compound")) /\ Get(d, K("compound")) = id
            /\ RelationIds(d, K("model")) \subseteq TargetIds(QsarLink(n, "model"))

\* the datapoint of repetition 0 linked to the second aspect of the call
\* (model/2/, of repetition 0) and to the compound, with an aspect of
\* repetition 1 (model/1/) in the document
C8_Witness ==
    /\ last.op = "scilinker" /\ sci_links = SampleLinks
    /\ \E d \in DataOf(0) :
          /\ Has(d, K("model"))
          /\ Get(d, K("model")) = StrV(<<"model", "/", "2", "/">>)
          /\ Has(d, K("compound"))
          /\ Get(d, K("compound")) = StrV(<<"compound", "/", "1", "/">>)
    /\ TargetIds(QsarLink(1, "model")) = {StrV(<<"model", "/", "1", "/">>)}

(***************************************************************************)
(* cleanup_flattened, get_semantics and binner (the package)                *)
(***************************************************************************)
ID_COLUMN == K("id")

SDSECTION == K("sdsection")

SDSUBSECTION == K("sdsubsection")

SCIDATA_KEY == K("scidata_key")

SCIDATA_VALUE == K("scidata_value")

ONTTERM_ID == K("ontterm_id")

HasSym(s, c) == Positions(s, c) # {}

\* s.split(c, 1)[0]
BeforeFirst(s, c) ==
    IF HasSym(s, c) THEN SubSeq(s, 1, Min(Positions(s, c)) - 1) ELSE s

\* s.split(c, 1)[1], for s that holds c
AfterFirst(s, c) == SubSeq(s, Min(Positions(s, c)) + 1, Len(s))

\* s.rsplit(c, 1)[0]
BeforeLast(s, c) ==
    IF HasSym(s, c) THEN SubSeq(s, 1, Max(Positions(s, c)) - 1) ELSE s

\* s.rsplit(c, 1)[1], for s that holds c
AfterLast(s, c) == SubSeq(s, Max(Positions(s, c)) + 1, Len(s))

\* re.search(r'(\d+)(?!.*\d)', k) is not None
HasDigit(k) == \E i \in 1..Len(k) : IsDigit(k[i])

\* the first digit of k
FirstDigit(k) == Min({i \in 1..Len(k) : IsDigit(k[i])})

\* the end of the match of r'(\d+)(?!.*\d)': the last digit of k
LastDigit(k) == Max({i \in 1..Len(k) : IsDigit(k[i])})

\* str(x) for a scalar
StrOf(x) == IF x.s.kind = "None" THEN <<"None">> ELSE x.s.val

\* the exception a leaf of the flattened dict raises in cleanup_flattened,
\* "none" when its entry is built
CleanupError(k, v) ==
    IF ~HasSym(IF HasDigit(k) THEN SubSeq(k, LastDigit(k) + 1, Len(k)) ELSE k, ";")
    THEN "IndexError"
    ELSE IF ~IsLiteral(v) THEN "ValueError"
    ELSE IF ~Has(LiteralEval(v), SDSECTION) THEN "KeyError"
    ELSE IF Get(LiteralEval(v), SDSECTION) # W("dataset")
            /\ ~Has(LiteralEval(v), SDSUBSECTION)
    THEN "KeyError"
    ELSE "none"

\* the group link of a leaf: k.rsplit(';', 1)[0] + '/', and the subsection
\* after it for a leaf that is not of the dataset section
CleanupLink(k, valx) ==
    StrV(BeforeLast(k, ";") \o <<"/">> \o
         (IF Get(valx, SDSECTION) = W("dataset") THEN <<>>
          ELSE StrOf(Get(valx, SDSUBSECTION))))

\* val before val.update(valx)
CleanupVal(k, valx) ==
    Dict(<< KV(K("scidata_dir"), StrV(k)),
            KV(SCIDATA_KEY, StrV(AfterLast(k, ";"))),
            KV(K("scidata_key_path"),
               StrV(IF HasDigit(k)
                    THEN AfterFirst(SubSeq(k, LastDigit(k) + 1, Len(k)), ";")
                    ELSE AfterLast(k, ";"))),
            KV(K("scidata_group"),
               StrV(IF HasDigit(k) THEN SubSeq(k, 1, LastDigit(k))
                    ELSE BeforeLast(k, ";"))),
            KV(GROUP_LINK, CleanupLink(k, valx)),
            KV(GROUP_LINK_ORIGINAL, CleanupLink(k, valx)) >>)

\* val after val.update(valx)
cleanup_entry(k, v) == Update(CleanupVal(k, LiteralEval(v)), LiteralEval(v))

\* the items the loop builds an entry for or raises for
Cleaned(input) ==
    SelectIdx(input.kv, LAMBDA i : IsStr(input.kv[i].v)
                                   /\ StartsWithBrace(input.kv[i].v))

\* the index of the first item that raises, 0 when none does
FirstRaise(items) ==
    IF \A i \in 1..Len(items) : CleanupError(items[i].k, items[i].v) = "none"
    THEN 0
    ELSE Min({i \in 1..Len(items) :
                 CleanupError(items[i].k, items[i].v) # "none"})

\* the loop over items of which the stop-th raises (none for 0)
cleanup_loop(items, stop) ==
    [out |-> Dict([i \in 1..(IF stop = 0 THEN Len(items) ELSE stop - 1) |->
                      KV(items[i].k, cleanup_entry(items[i].k, items[i].v))]),
     err |-> IF stop = 0 THEN "none"
             ELSE CleanupError(items[stop].k, items[stop].v)]

\* cleanup_flattened(sci_input): the output and the exception raised; the
\* keys of the input, a dict, are distinct
cleanup_flattened(input) ==
    cleanup_loop(Cleaned(input), FirstRaise(Cleaned(input)))

\* the indices of the rows of a table whose "id" is the value
RowsWithId(table, id) == {i \in 1..Len(table) : Get(table[i], ID_COLUMN) = id}

\* namespaces.update({nspacesearch['ns']: nspacesearch['path']}) for the
\* namespace of ontology term ont
semantics_found(prev, ont, nspaces) ==
    IF ~Has(ont, K("nspace_id")) THEN [prev EXCEPT !.err = "KeyError"]
    ELSE IF RowsWithId(nspaces, Get(ont, K("nspace_id"))) = {}
    THEN [prev EXCEPT !.err = "StopIteration"]
    ELSE [prev EXCEPT
             !.out = Put(@,
                 Get(nspaces[Min(RowsWithId(nspaces, Get(ont, K("nspace_id"))))],
                     K("ns")).s.val,
                 Get(nspaces[Min(RowsWithId(nspaces, Get(ont, K("nspace_id"))))],
                     K("path")))]

\* a loop body that passes over a leaf whose term no row has
semantics_entry_skip(prev, x, ontterms, nspaces) ==
    IF prev.err # "none" THEN prev
    ELSE IF ~Has(x, ONTTERM_ID) THEN [prev EXCEPT !.err = "KeyError"]
    ELSE IF RowsWithId(ontterms, Get(x, ONTTERM_ID)) = {} THEN prev
    ELSE semantics_found(prev,
             ontterms[Min(RowsWithId(ontterms, Get(x, ONTTERM_ID)))], nspaces)

\* the body of "for x in sci_input.values()": next(...) raises StopIteration
\* for a term or a namespace that no row has
semantics_entry(prev, x, ontterms, nspaces) ==
    IF prev.err # "none" THEN prev
    ELSE IF ~Has(x, ONTTERM_ID) THEN [prev EXCEPT !.err = "KeyError"]
    ELSE IF RowsWithId(ontterms, Get(x, ONTTERM_ID)) = {}
    THEN [prev EXCEPT !.err = "StopIteration"]
    ELSE semantics_found(prev,
             ontterms[Min(RowsWithId(ontterms, Get(x, ONTTERM_ID)))], nspaces)

\* get_semantics(sci_input, onttermslist, nspaceslist): the namespaces and
\* the exception raised
get_semantics(input, ontterms, nspaces) ==
    LET F[i \in 0..Len(input.kv)] ==
            IF i = 0 THEN [out |-> EmptyDict, err |-> "none"]
            ELSE semantics_entry(F[i - 1], input.kv[i].v, ontterms, nspaces)
    IN F[Len(input.kv)]

\* l.append(x)
ListAppend(l, x) == [l EXCEPT !.kv = Append(@, KV(<<>>, x))]

\* bins = {'methodology': [], 'system': [], 'dataset': []}
EmptyBins ==
    Dict(<< KV(K("methodology"), List(<<>>)), KV(K("system"), List(<<>>)),
            KV(K("dataset"), List(<<>>)) >>)

\* a loop body that passes over a leaf of a section that has no bin
binner_entry_lenient(prev, v) ==
    IF prev.err # "none" THEN prev
    ELSE IF ~Has(v, SDSECTION) \/ ~IsStr(Get(v, SDSECTION))
            \/ ~Has(prev.out, Get(v, SDSECTION).s.val)
    THEN prev
    ELSE [prev EXCEPT
             !.out = Put(@, Get(v, SDSECTION).s.val,
                         ListAppend(Get(@, Get(v, SDSECTION).s.val), v))]

\* bins[v['sdsection']].append(v)
binner_entry(prev, v) ==
    IF prev.err # "none" THEN prev
    ELSE IF ~Has(v, SDSECTION) \/ ~IsStr(Get(v, SDSECTION))
            \/ ~Has(prev.out, Get(v, SDSECTION).s.val)
    THEN [prev EXCEPT !.err = "KeyError"]
    ELSE [prev EXCEPT
             !.out = Put(@, Get(v, SDSECTION).s.val,
                         ListAppend(Get(@, Get(v, SDSECTION).s.val), v))]

\* binner(sci_input): the bins and the exception raised
binner(input) ==
    LET F[i \in 0..Len(input.kv)] ==
            IF i = 0 THEN [out |-> EmptyBins, err |-> "none"]
            ELSE binner_entry(F[i - 1], input.kv[i].v)
    IN F[Len(input.kv)]

(***************************************************************************)
(* Iteration over sets                                                      *)
(*                                                                          *)
(* The code does not determine the order in which "for d in a_set" visits   *)
(* the elements (the hashes of strings differ from run to run).  Within a   *)
(* run, sets built by adding the same elements in the same order are        *)
(* visited in the same order.  An order function maps the sequence of first *)
(* additions to the order of the visit; the actions choose it freely.       *)
(***************************************************************************)
\* the orderings of a sequence without duplicates
Orderings(s) ==
    IF s = <<>> THEN {<<>>}
    ELSE {[i \in 1..Len(s) |-> s[p[i]]] : p \in Permutations(1..Len(s))}

\* the order functions for the sets built from the sequences of S
SetOrders(S) ==
    {f \in [S -> UNION {Orderings(s) : s \in S}] :
        \A s \in S : f[s] \in Orderings(s)}

(***************************************************************************)
(* bin_grouper (the package)                                                *)
(***************************************************************************)
\* a grouping that keeps the first group link of a bin only
GroupLinksFirst(b) ==
    IF b.kv = <<>> THEN <<>> ELSE <<Get(b.kv[1].v, GROUP_LINK)>>

\* bin_groups_set as it is built: the group links of the leaves of a bin
GroupLinks(b) == Added([i \in 1..Len(b.kv) |-> Get(b.kv[i].v, GROUP_LINK)])

\* c['scidata_key'] as a key
KeyOf(c) == Get(c, SCIDATA_KEY).s.val

\* the '@id' of a group: 'datum' in the dataset bin, else the subsection
GroupId(c) ==
    IF Get(c, SDSECTION) = W("dataset") THEN W("datum")
    ELSE Get(c, SDSUBSECTION)

\* the branch of a key the group holds already: a dict becomes a list of
\* itself, then c is appended
group_again(prev, cur, c) ==
    IF IsDict(cur)
    THEN [prev EXCEPT !.out = Put(@, KeyOf(c), List(<<cur, c>>))]
    ELSE IF IsList(cur)
    THEN [prev EXCEPT !.out = Put(@, KeyOf(c), ListAppend(cur, c))]
    ELSE [prev EXCEPT !.err = "AttributeError"]

\* the body of "for c in b" for the group of link d
group_member(prev, c, d) ==
    IF prev.err # "none" \/ Get(c, GROUP_LINK) # d THEN prev
    ELSE IF GetTruthy(prev.out, KeyOf(c))
    THEN group_again(prev, Get(prev.out, KeyOf(c)), c)
    ELSE [prev EXCEPT !.out = Put(Put(@, ID, GroupId(c)), KeyOf(c), c)]

\* sdsubsection_group for link d
group_of(b, d) ==
    LET F[i \in 0..Len(b.kv)] ==
            IF i = 0 THEN [out |-> EmptyDict, err |-> "none"]
            ELSE group_member(F[i - 1], b.kv[i].v, d)
    IN F[Len(b.kv)]

\* subset_list.append(sdsubsection_group)
subset_add(prev, g) ==
    IF g.err # "none" THEN [prev EXCEPT !.err = g.err]
    ELSE [prev EXCEPT !.out = ListAppend(@, g.out)]

subset_step(prev, b, d) ==
    IF prev.err # "none" THEN prev ELSE subset_add(prev, group_of(b, d))

\* subset_list of a bin whose links are visited in the given order
subset_list(b, order) ==
    LET F[i \in 0..Len(order)] ==
            IF i = 0 THEN [out |-> List(<<>>), err |-> "none"]
            ELSE subset_step(F[i - 1], b, order[i])
    IN F[Len(order)]

\* if subset_list: bins_grouped.update({a: subset_list})
grouper_store(prev, a, sub) ==
    IF sub.err # "none" THEN [prev EXCEPT !.err = sub.err]
    ELSE IF sub.out.kv = <<>> THEN prev
    ELSE [prev EXCEPT !.out = Put(@, a, sub.out)]

\* the body of "for a, b in sci_input.items()"
grouper_bin(prev, a, b, ord) ==
    IF prev.err # "none" THEN prev
    ELSE grouper_store(prev, a, subset_list(b, ord[GroupLinks(b)]))

\* bin_grouper(sci_input) under an order function: the grouped bins and the
\* exception raised
bin_grouper(input, ord) ==
    LET F[i \in 0..Len(input.kv)] ==
            IF i = 0 THEN [out |-> EmptyDict, err |-> "none"]
            ELSE grouper_bin(F[i - 1], input.kv[i].k, input.kv[i].v, ord)
    IN F[Len(input.kv)]

\* the sets bin_grouper iterates over
GrouperSets(input) == {GroupLinks(input.kv[i].v) : i \in 1..Len(input.kv)}

(***************************************************************************)
(* datasetmodder (the package)                                              *)
(***************************************************************************)
\* the items of a group but '@id'
Leaves(x) == SelectIdx(x.kv, LAMBDA i : x.kv[i].k # ID)

\* datumtypes as it is built
DatumTypes(x) ==
    Added([i \in 1..Len(Leaves(x)) |-> Get(Leaves(x)[i].v, SDSUBSECTION)])

\* the name v is unbound until an item of a group has been visited
Unbound == Sc("unbound", <<>>)

\* v after the loops over the items of x
LastValue(v, x) == IF x.kv = <<>> THEN v ELSE x.kv[Len(x.kv)].v

\* the exception the loops over the items of x raise, "none" when they end
LeavesError(x) ==
    IF \E i \in 1..Len(Leaves(x)) : ~IsDict(Leaves(x)[i].v) THEN "TypeError"
    ELSE IF \E i \in 1..Len(Leaves(x)) :
                ~Has(Leaves(x)[i].v, SDSUBSECTION)
                \/ ~Has(Leaves(x)[i].v, SCIDATA_KEY)
                \/ ~Has(Leaves(x)[i].v, SCIDATA_VALUE)
    THEN "KeyError"
    ELSE IF \E i \in 1..Len(Leaves(x)) :
                ~IsStr(Get(Leaves(x)[i].v, SDSUBSECTION))
    THEN "TypeError"
    ELSE "none"

\* the exception of v['scidata_group_link'].split('/')[0] and of the same
\* for the original link
LinkError(v) ==
    IF v = Unbound THEN "UnboundLocalError"
    ELSE IF ~IsDict(v) THEN "TypeError"
    ELSE IF ~Has(v, GROUP_LINK) \/ ~Has(v, GROUP_LINK_ORIGINAL) THEN "KeyError"
    ELSE IF ~IsStr(Get(v, GROUP_LINK)) \/ ~IsStr(Get(v, GROUP_LINK_ORIGINAL))
    THEN "AttributeError"
    ELSE "none"

\* value.update({"@id": "value", "@type": "sdo:value", key: scidata_value})
\* for the leaves of subsection sdsub
value_item(prev, item, sdsub) ==
    IF Get(item.v, SDSUBSECTION) # sdsub THEN prev
    ELSE Put(Put(Put(prev, ID, W("value")),
                 TYPE, StrV(<<"sdo", ":", "value">>)),
             KeyOf(item.v), Get(item.v, SCIDATA_VALUE))

value_of(x, sdsub) ==
    LET F[i \in 0..Len(Leaves(x))] ==
            IF i = 0 THEN EmptyDict
            ELSE value_item(F[i - 1], Leaves(x)[i], sdsub)
    IN F[Len(Leaves(x))]

\* the datum of subsection sdsub
datum_of(x, sdsub) ==
    Dict(<< KV(ID, W("datum")),
            KV(TYPE, StrV(<<"sdo", ":">> \o sdsub.s.val)),
            KV(VALUE, value_of(x, sdsub)) >>)

\* the datapoint of group x; v is the last item visited
datapoint_of(x, order, v) ==
    Dict(<< KV(ID, W("datapoint")),
            KV(TYPE, StrV(<<"sdo", ":", "datapoint">>)),
            KV(DATA, List([i \in 1..Len(order) |-> datum_of(x, order[i])])),
            KV(HASH, StrV(BeforeFirst(Get(v, GROUP_LINK).s.val, "/"))),
            KV(HASH2, StrV(BeforeFirst(Get(v, GROUP_LINK_ORIGINAL).s.val, "/"))) >>)

\* datasetmod.append(dataset) for group x, or the exception
modder_append(prev, x, order, v) ==
    IF LeavesError(x) # "none" THEN [prev EXCEPT !.err = LeavesError(x)]
    ELSE IF LinkError(v) # "none" THEN [prev EXCEPT !.err = LinkError(v)]
    ELSE [prev EXCEPT !.out = Append(@, datapoint_of(x, order, v)), !.v = v]

\* the body of "for x in sci_input"
modder_group(prev, x, ord) ==
    IF prev.err # "none" THEN prev
    ELSE IF ~IsDict(x) THEN [prev EXCEPT !.err = "AttributeError"]
    ELSE modder_append(prev, x,
             IF LeavesError(x) = "none" THEN ord[DatumTypes(x)] ELSE <<>>,
             LastValue(prev.v, x))

\* datasetmodder(sci_input) under an order function: the datapoints and the
\* exception raised
datasetmodder(input, ord) ==
    LET F[i \in 0..Len(input)] ==
            IF i = 0 THEN [out |-> <<>>, err |-> "none", v |-> Unbound]
            ELSE modder_group(F[i - 1], input[i], ord)
    IN F[Len(input)]

\* the sets datasetmodder iterates over
ModderSets(input) ==
    {DatumTypes(input[i]) :
        i \in {j \in 1..Len(input) :
                  IsDict(input[j]) /\ LeavesError(input[j]) = "none"}}

(***************************************************************************)
(* remove_extra_metadata (the package)                                      *)
(***************************************************************************)
\* the exception of reading the value and the links of an annotated leaf
LeafError(v) ==
    IF ~IsDict(v) THEN "TypeError"
    ELSE IF ~Has(v, SCIDATA_VALUE) \/ ~Has(v, GROUP_LINK)
            \/ ~Has(v, GROUP_LINK_ORIGINAL)
    THEN "KeyError"
    ELSE "none"

\* the values appended to entry[k] for a list of leaves
ListValues(v) == [i \in 1..Len(v.kv) |-> GetOr(v.kv[i].v, SCIDATA_VALUE)]

\* the exception of the branch for a list: that of a leaf, or that of
\* set(entry[k]) for a value that is a dict or a list
ListError(v) ==
    IF \E i \in 1..Len(v.kv) : LeafError(v.kv[i].v) # "none"
    THEN LeafError(v.kv[Min({i \in 1..Len(v.kv) :
                                LeafError(v.kv[i].v) # "none"})].v)
    ELSE IF \E i \in 1..Len(v.kv) : ListValues(v)[i].t # "s" THEN "TypeError"
    ELSE "none"

\* reference.update({'#': ...}); reference.update({'##': ...})
Referenced(ref, leaf) ==
    Put(Put(ref, HASH, Get(leaf, GROUP_LINK)),
        HASH2, Get(leaf, GROUP_LINK_ORIGINAL))

\* a list that is kept a list whatever its length
NeverCollapsed(xs) == List(xs)

\* if len(entry[k]) == 1: entry[k] = entry[k][0]
Collapsed(xs) == IF Len(xs) = 1 THEN xs[1] ELSE List(xs)

\* the branch of remove_extra_metadata for a dict
remove_dict(prev, k, v) ==
    IF LeafError(v) # "none" THEN [prev EXCEPT !.err = LeafError(v)]
    ELSE [prev EXCEPT !.out = Put(@, k, Get(v, SCIDATA_VALUE)),
                      !.ref = Referenced(@, v)]

\* the branch for a list: the values without duplicates in the order of
\* list(set(...)), and the links of the last leaf
remove_list(prev, k, v, ord) ==
    IF ListError(v) # "none" THEN [prev EXCEPT !.err = ListError(v)]
    ELSE [prev EXCEPT
             !.out = Put(@, k, Collapsed(ord[Added(ListValues(v))])),
             !.ref = IF v.kv = <<>> THEN @
                     ELSE Referenced(@, v.kv[Len(v.kv)].v)]

\* the body of "for k, v in entry.items()"
remove_item(prev, k, v, ord) ==
    IF prev.err # "none" THEN prev
    ELSE IF IsDict(v) THEN remove_dict(prev, k, v)
    ELSE IF IsList(v) THEN remove_list(prev, k, v, ord)
    ELSE prev

remove_items(entry, ord) ==
    LET F[i \in 0..Len(entry.kv)] ==
            IF i = 0 THEN [out |-> entry, ref |-> EmptyDict, err |-> "none"]
            ELSE remove_item(F[i - 1], entry.kv[i].k, entry.kv[i].v, ord)
    IN F[Len(entry.kv)]

\* entry.update(reference)
remove_done(prev, r) ==
    IF r.err # "none" THEN [prev EXCEPT !.err = r.err]
    ELSE [prev EXCEPT !.out = Append(@, Update(r.out, r.ref))]

\* the body of "for entry in sci_input"
remove_entry(prev, entry, ord) ==
    IF prev.err # "none" THEN prev
    ELSE IF ~IsDict(entry) THEN [prev EXCEPT !.err = "AttributeError"]
    ELSE remove_done(prev, remove_items(entry, ord))

\* remove_extra_metadata(sci_input) under an order function: the entries
\* after the call and the exception raised
remove_extra_metadata(input, ord) ==
    LET F[i \in 0..Len(input)] ==
            IF i = 0 THEN [out |-> <<>>, err |-> "none"]
            ELSE remove_entry(F[i - 1], input[i], ord)
    IN F[Len(input)]

\* the list items of an entry
ListItems(entry) ==
    {entry.kv[i].v : i \in {j \in 1..Len(entry.kv) : IsList(entry.kv[j].v)}}

\* the sets remove_extra_metadata iterates over
RemoveSets(input) ==
    {Added(ListValues(v)) :
        v \in UNION {ListItems(input[i]) : i \in 1..Len(input)}}

(***************************************************************************)
(* The data of example.py                                                   *)
(***************************************************************************)
\* an entry of "qsar_predicted_properties"
QsarEntry(id, model, whole, frac, report, endpoint, name) ==
    Dict(<< KV(K("id"), IntV(id)),
            KV(K("efk_dsstox_compound_id"), IntV(596)),
            KV(K("efk_qsar_model_id"), IntV(model)),
            KV(K("result_value"), Number(whole, frac)),
            KV(K("report_filename"), W(report)),
            KV(K("models"),
               Dict(<< KV(K("id"), IntV(model)),
                       KV(K("efk_chemprop_endpoint_id"), IntV(endpoint)),
                       KV(K("name"), W(name)) >>)) >>)

ThermalConductivity ==
    QsarEntry(5909, 14, 130, 52, "DTXCID10596-TEST_Thermal_Conductivity.html",
              15, "TEST_Thermal_Conductivity")

Density ==
    QsarEntry(5982, 4, 0, 89, "DTXCID10596-TEST_Density.html", 5, "TEST_Density")

\* merged_dictionary with the given QSAR entries
Compound(entries) ==
    Dict(<< KV(K("compounds"),
               Dict(<< KV(K("id"), IntV(596)),
                       KV(K("dsstox_compound_id"), W("DTXCID10596")),
                       KV(K("smiles"), W("CCC1=CC=CC=C1")),
                       KV(K("jchem_inchi_key"), W("YNQLUTRBYVCPMQ-UHFFFAOYSA-N")),
                       KV(K("acd_iupac_name"), W("Ethylbenzene")),
                       KV(K("mol_formula"), W("C8H10")),
                       KV(K("mol_weight"), Number(106, 168)),
                       KV(K("qsar_predicted_properties"), List(entries)) >>)) >>)

\* merged_dictionary
merged_dictionary == Compound(<<ThermalConductivity, Density>>)

\* the record of the script, and the record with its first entry only
SampleRecords == {merged_dictionary, Compound(<<ThermalConductivity>>)}

\* a row of crosswalks
SampleCrosswalk(id, table, field, ontterm, section, subsection, subsub) ==
    Dict(<< KV(K("id"), IntV(id)),
            KV(TABLE, W(table)),
            KV(FIELD, W(field)),
            KV(ONTTERM_ID, IntV(ontterm)),
            KV(SDSECTION, W(section)),
            KV(SDSUBSECTION, W(subsection)),
            KV(K("sdsubsubsection"), subsub),
            KV(K("category"), None),
            KV(K("unit"), None),
            KV(K("datatype"), W("string")) >>)

\* crosswalks
SampleCrosswalks ==
    << SampleCrosswalk(16, "compounds", "dsstox_compound_id", 323, "system",
                       "compound", W("identifier")),
       SampleCrosswalk(23, "compounds", "smiles", 80, "system", "compound",
                       W("identifier")),
       SampleCrosswalk(47, "qsar_predicted_properties", "result_value", 9999,
                       "dataset", "exptdata", None),
       SampleCrosswalk(48, "models", "name", 9999, "methodology", "model",
                       StrV(<<>>)),
       SampleCrosswalk(49, "qsar_predicted_properties", "report_filename",
                       9999, "dataset", "suppdata", None) >>

\* onttermslist: the columns get_semantics reads
onttermslist ==
    << Dict(<<KV(ID_COLUMN, IntV(323)), KV(K("nspace_id"), IntV(2))>>),
       Dict(<<KV(ID_COLUMN, IntV(80)), KV(K("nspace_id"), IntV(2))>>),
       Dict(<<KV(ID_COLUMN, IntV(9999)), KV(K("nspace_id"), IntV(19))>>) >>

\* nspaceslist: the columns get_semantics reads
nspaceslist ==
    << Dict(<< KV(ID_COLUMN, IntV(2)), KV(K("ns"), W("obo")),
               KV(K("path"), W("http://purl.obolibrary.org/obo/")) >>),
       Dict(<< KV(ID_COLUMN, IntV(19)), KV(K("ns"), W("sdo")),
               KV(K("path"),
                  W("https://stuchalk.github.io/scidata/ontology/scidata.owl#")) >>) >>

(***************************************************************************)
(* SpecExample: the calls of example.py in the order of the script          *)
(***************************************************************************)
InitExample ==
    /\ pc = "crosswalker"
    /\ err = "none"
    /\ object_data_json \in SampleRecords
    /\ crosswalks = SampleCrosswalks
    /\ cw_table = FALSE
    /\ dictionary = EmptyDict
    /\ sci_input = EmptyDict
    /\ group_overrides = SampleOverrides
    /\ sci_links = SampleLinks
    /\ sci_groups = SampleGroups
    /\ DocInit /\ BinIdle
    /\ last = NoCall

\* example.py line 203: cleanup_flattened(flat_object_data_json)
CleanupFlattened ==
    /\ pc = "cleanup_flattened"
    /\ LET r == cleanup_flattened(dictionary)
       IN /\ sci_input' = r.out
          /\ err' = r.err
          /\ pc' = Returned(r.err, "group_link_override")
    /\ last' = Call("cleanup_flattened", dictionary, EmptyDict)
    /\ UNCHANGED <<dictionary, treeVars, docVars, binVars, ruleVars>>

\* example.py line 207: get_semantics(...)
GetSemantics ==
    /\ pc = "get_semantics"
    /\ LET r == get_semantics(sci_input, onttermslist, nspaceslist)
       IN /\ err' = r.err
          /\ pc' = Returned(r.err, "binner")
          /\ last' = Call("get_semantics", EmptyDict, r.out)
    /\ UNCHANGED <<dictionary, sci_input, treeVars, docVars, binVars, ruleVars>>

\* example.py line 212: binner(object_data_json_flat_filtered)
Binner ==
    /\ pc = "binner"
    /\ LET r == binner(sci_input)
       IN /\ bins' = IF r.err = "none" THEN r.out ELSE bins
          /\ err' = r.err
          /\ pc' = Returned(r.err, "bin_grouper")
    /\ last' = Call("binner", EmptyDict, EmptyDict)
    /\ UNCHANGED <<dictionary, sci_input, treeVars, docVars, bins_grouped,
                   datasetmod, ruleVars>>

\* example.py line 214: bin_grouper(bins)
BinGrouper ==
    /\ pc = "bin_grouper"
    /\ \E ord \in SetOrders(GrouperSets(bins)) :
          LET r == bin_grouper(bins, ord)
          IN /\ bins_grouped' = r.out
             /\ err' = r.err
             /\ pc' = Returned(r.err, "datasetmodder")
    /\ last' = Call("bin_grouper", EmptyDict, EmptyDict)
    /\ UNCHANGED <<dictionary, sci_input, treeVars, docVars, bins, datasetmod,
                   ruleVars>>

\* bins_grouped[name], the lookup that raises KeyError for a bin that is
\* not there
Grouped(name) ==
    IF Has(bins_grouped, K(name)) THEN Elems(Get(bins_grouped, K(name)))
    ELSE <<>>

\* example.py line 216: datasetmodder(bins_grouped['dataset'])
Datasetmodder ==
    /\ pc = "datasetmodder"
    /\ IF ~Has(bins_grouped, K("dataset"))
       THEN /\ err' = "KeyError" /\ pc' = "raised" /\ datasetmod' = datasetmod
       ELSE \E ord \in SetOrders(ModderSets(Grouped("dataset"))) :
              LET r == datasetmodder(Grouped("dataset"), ord)
              IN /\ datasetmod' = r.out
                 /\ err' = r.err
                 /\ pc' = Returned(r.err, "remove_methodology")
    /\ last' = Call("datasetmodder", EmptyDict, EmptyDict)
    /\ UNCHANGED <<dictionary, sci_input, treeVars, docVars, bins,
                   bins_grouped, ruleVars>>

\* remove_extra_metadata(bins_grouped[name]): the entries are changed in
\* place
Stripped(name, next) ==
    /\ IF ~Has(bins_grouped, K(name))
       THEN /\ err' = "KeyError" /\ pc' = "raised"
            /\ bins_grouped' = bins_grouped
       ELSE \E ord \in SetOrders(RemoveSets(Grouped(name))) :
              LET r == remove_extra_metadata(Grouped(name), ord)
              IN /\ bins_grouped' = IF r.err = "none"
                                    THEN Put(bins_grouped, K(name), List(r.out))
                                    ELSE bins_grouped
                 /\ err' = r.err
                 /\ pc' = Returned(r.err, next)
    /\ last' = Call("remove_extra_metadata", EmptyDict, EmptyDict)
    /\ UNCHANGED <<dictionary, sci_input, treeVars, docVars, bins, datasetmod,
                   ruleVars>>

\* example.py line 218: remove_extra_metadata(bins_grouped['methodology'])
RemoveMethodology == pc = "remove_methodology" /\ Stripped("methodology", "remove_system")

\* a script that goes from the second remove_extra_metadata to scilinker
RemoveSystemThenLink == pc = "remove_system" /\ Stripped("system", "scilinker")

\* example.py line 220: remove_extra_metadata(bins_grouped['system'])
RemoveSystem == pc = "remove_system" /\ Stripped("system", "aspects")

\* example.py line 222: test.aspects(bins_grouped['methodology'])
ExampleAspects ==
    /\ pc = "aspects"
    /\ LET r == AppendAll(Elems(aspects), List(Grouped("methodology")), ids)
       IN /\ aspects' = List(r.items)
          /\ ids' = r.ids
          /\ err' = r.err
          /\ pc' = Returned(r.err, "facets")
          /\ last' = Call("aspects", EmptyDict, List(r.added))
    /\ UNCHANGED <<facets, dataset, sci_links, sci_groups, pipeVars>>

\* example.py line 223: test.facets(bins_grouped['system'])
ExampleFacets ==
    /\ pc = "facets"
    /\ LET r == AppendAll(Elems(facets), List(Grouped("system")), ids)
       IN /\ facets' = List(r.items)
          /\ ids' = r.ids
          /\ err' = r.err
          /\ pc' = Returned(r.err, "datapoint")
          /\ last' = Call("facets", EmptyDict, List(r.added))
    /\ UNCHANGED <<aspects, dataset, sci_links, sci_groups, pipeVars>>

\* example.py line 224: test.datapoint(datasetmod)
ExampleDatapoint ==
    /\ pc = "datapoint"
    /\ LET r == AppendAll(Datapoints(dataset), List(datasetmod), ids)
       IN /\ dataset' = IF r.err = "none" \/ Has(dataset, DATAPOINT)
                        THEN Put(dataset, DATAPOINT, List(r.items))
                        ELSE dataset
          /\ ids' = r.ids
          /\ err' = r.err
          /\ pc' = Returned(r.err, "scilinker")
          /\ last' = Call("datapoint", EmptyDict, List(r.added))
    /\ UNCHANGED <<aspects, facets, sci_links, sci_groups, pipeVars>>

\* example.py line 257: test.scilinker(sci_links)
ExampleScilinker ==
    /\ pc = "scilinker"
    /\ LET r == scilinker(InputSets(dataset, aspects, facets), sci_links)
       IN /\ WriteBack(r.sets)
          /\ err' = r.err
          /\ pc' = Returned(r.err, "datagroup")
    /\ last' = Call("scilinker", EmptyDict, EmptyDict)
    /\ UNCHANGED <<ids, sci_links, sci_groups, pipeVars>>

\* example.py line 259: test.datagroup(sci_groups)
ExampleDatagroup ==
    /\ pc = "datagroup"
    /\ LET r == datagroup(dataset, sci_groups)
       IN /\ dataset' = r.dataset
          /\ err' = r.err
          /\ pc' = Returned(r.err, "scicleanup")
    /\ last' = Call("datagroup", EmptyDict, EmptyDict)
    /\ UNCHANGED <<aspects, facets, ids, sci_links, sci_groups, pipeVars>>

\* example.py line 261: test.scicleanup()
ExampleScicleanup ==
    /\ pc = "scicleanup"
    /\ LET r == scicleanup(InputSets(dataset, aspects, facets))
       IN /\ WriteBack(r.sets)
          /\ err' = r.err
          /\ pc' = Returned(r.err, "output")
    /\ last' = Call("scicleanup", EmptyDict, EmptyDict)
    /\ UNCHANGED <<ids, sci_links, sci_groups, pipeVars>>

NextExample ==
    \/ Crosswalker
    \/ UnpackPass
    \/ CleanupFlattened
    \/ GroupLinkOverride
    \/ GetSemantics
    \/ Binner
    \/ BinGrouper
    \/ Datasetmodder
    \/ RemoveMethodology
    \/ RemoveSystem
    \/ ExampleAspects
    \/ ExampleFacets
    \/ ExampleDatapoint
    \/ ExampleScilinker
    \/ ExampleDatagroup
    \/ ExampleScicleanup

SpecExample == InitExample /\ [][NextExample]_vars

(***************************************************************************)
(* Claims about the run of example.py                                       *)
(***************************************************************************)
\* object_data_json of the script once crosswalker has annotated it
AnnotatedSample ==
    crosswalker(K("compounds"), merged_dictionary, SampleCrosswalks, FALSE).tree

\* the run is that of the script's own record, and it has come to its end
SampleOutput == pc = "output" /\ object_data_json = AnnotatedSample

\* the values the records of a list hold for a field
FieldValues(l, k) == {Get(l.kv[i].v, k) : i \in {j \in 1..Len(l.kv) : Has(l.kv[j].v, k)}}

\* the '@type' of the datum sub-records of a datapoint
DatumKinds(d) ==
    [i \in 1..Len(Get(d, DATA).kv) |-> Get(Get(d, DATA).kv[i].v, TYPE)]

\* one facet that holds both the dsstox id and the SMILES
OneCompoundFacet ==
    /\ Len(facets.kv) = 1
    /\ FieldValues(facets, K("dsstox_compound_id")) = {W("DTXCID10596")}
    /\ FieldValues(facets, K("smiles")) = {W("CCC1=CC=CC=C1")}

\* every datapoint has two datum sub-records, one of the experimental and
\* one of the supplementary data
TwoDatumEach ==
    \A i \in 1..Len(Datapoints(dataset)) :
        /\ Len(DatumKinds(Datapoints(dataset)[i])) = 2
        /\ {DatumKinds(Datapoints(dataset)[i])[n] : n \in 1..2}
              = {StrV(<<"sdo", ":", "exptdata">>), StrV(<<"sdo", ":", "suppdata">>)}

\* C7 as stated: the output of the bundled example holds exactly one facet
\* (dsstox id and SMILES), exactly one aspect (model name) and exactly one
\* datapoint, whose data has two datum sub-records.
C7_OneAspectOneDatapoint ==
    SampleOutput =>
        /\ OneCompoundFacet
        /\ Len(aspects.kv) = 1
        /\ Len(Datapoints(dataset)) = 1
        /\ TwoDatumEach

\* C7, amended: the run of the bundled example raises nothing and its output
\* holds exactly one facet (dsstox id and SMILES), two aspects, one for the
\* model name of each of the two QSAR entries, and two datapoints, one for
\* each QSAR entry, each with two datum sub-records.
C7_AspectAndDatapointPerEntry ==
    (object_data_json \in {merged_dictionary, AnnotatedSample}) =>
        /\ pc # "raised"
        /\ pc = "output" =>
              /\ OneCompoundFacet
              /\ Len(aspects.kv) = 2
              /\ FieldValues(aspects, K("name"))
                    = {W("TEST_Thermal_Conductivity"), W("TEST_Density")}
              /\ Len(Datapoints(dataset)) = 2
              /\ TwoDatumEach

\* the output of the bundled example, with the datapoint of the second QSAR
\* entry (density, 0.89) before that of the first
C7_Witness ==
    /\ SampleOutput
    /\ err = "none"
    /\ Len(Datapoints(dataset)) = 2
    /\ Get(Get(Get(Datapoints(dataset)[1], DATA).kv[1].v, VALUE),
           IF DatumKinds(Datapoints(dataset)[1])[1] = StrV(<<"sdo", ":", "exptdata">>)
           THEN K("result_value") ELSE K("report_filename"))
          \in {Number(0, 89), W("DTXCID10596-TEST_Density.html")}

\* the aspects built from the model of the QSAR entry a datapoint is built
\* from: the original group link of the aspect is that of the datapoint's
\* entry followed by ";models/model"
AspectsOf(d) ==
    {a \in {aspects.kv[i].v : i \in 1..Len(aspects.kv)} :
        /\ Has(a, HASH2) /\ Has(d, HASH2)
        /\ Get(a, HASH2)
              = StrV(Get(d, HASH2).s.val \o <<";", "models", "/", "model">>)}

\* C9: in the run of the bundled example, after test.scilinker(sci_links)
\* every datapoint carries a 'model' relation naming the aspect built from
\* the model of the same QSAR repetition index and a 'compound' relation
\* naming the compound facet.
C9_ExampleDatapointsLinked ==
    (pc = "datagroup" /\ last.op = "scilinker"
        /\ object_data_json = AnnotatedSample) =>
        \A i \in 1..Len(Datapoints(dataset)) :
            /\ AspectsOf(Datapoints(dataset)[i]) # {}
            /\ \A a \in AspectsOf(Datapoints(dataset)[i]) :
                  /\ Has(Datapoints(dataset)[i], K("model"))
                  /\ Get(Datapoints(dataset)[i], K("model")) = Get(a, ID)
            /\ Has(Datapoints(dataset)[i], K("compound"))
            /\ Get(Datapoints(dataset)[i], K("compound"))
                  = Get(facets.kv[1].v, ID)

(***************************************************************************)
(* Claims about SciData.scicleanup                                          *)
(***************************************************************************)
\* a dict without the reference field '#' and the tracking field '##'
NoHashes(d) ==
    [d EXCEPT !.kv = SelectIdx(d.kv, LAMBDA i : d.kv[i].k \notin {HASH, HASH2})]

\* a data entry with the two fields taken out of its value wrapper
BareEntry(e) ==
    IF IsDict(e) /\ Has(e, VALUE) /\ IsDict(Get(e, VALUE))
    THEN Put(e, VALUE, NoHashes(Get(e, VALUE)))
    ELSE e

\* a record with the two fields taken out of it and out of the value
\* wrappers of its data entries, every other field as it was
Bare(rec) ==
    IF Has(rec, DATA) /\ IsList(Get(rec, DATA))
    THEN Put(NoHashes(rec), DATA,
             List([i \in 1..Len(Get(rec, DATA).kv) |->
                      BareEntry(Get(rec, DATA).kv[i].v)]))
    ELSE NoHashes(rec)

\* the fields '#' and '##' a record bears, its own and those of the value
\* wrappers of its data entries
HashesOf(rec) ==
    {h \in {HASH, HASH2} :
        \/ Has(rec, h)
        \/ \E i \in 1..Len(DataEntries(rec)) :
              /\ IsDict(DataEntries(rec)[i])
              /\ IsDict(ValueOf(DataEntries(rec)[i]))
              /\ Has(ValueOf(DataEntries(rec)[i]), h)}

\* C11: after scicleanup no record of dataset.datapoint, methodology.aspects
\* or system.facets and no value wrapper of a datum bears '#' or '##', and
\* every other field of every record is what it was before the call.
C11_CleanupStripsReferences ==
    [][last'.op = "scicleanup" =>
          /\ err' = "none"
          /\ \A c \in {Cells(InputSets(dataset, aspects, facets))[n] :
                          n \in 1..Len(Cells(InputSets(dataset, aspects, facets)))} :
                /\ InputSets(dataset', aspects', facets')[c[1]][c[2]]
                      = Bare(InputSets(dataset, aspects, facets)[c[1]][c[2]])
                /\ HashesOf(InputSets(dataset', aspects', facets')[c[1]][c[2]])
                      = {}
          /\ Len(Cells(InputSets(dataset', aspects', facets')))
                = Len(Cells(InputSets(dataset, aspects, facets)))]_vars

\* scicleanup has run on a document with a linked datapoint that bore both
\* fields itself, a datapoint that bore '#' in its value wrappers and an
\* aspect, after scilinker has attached relations
C11_Witness ==
    /\ last.op = "scicleanup"
    /\ \E a, b \in AllRecords(dataset, aspects, facets) :
          /\ Has(a, K("crystal")) /\ Has(a, DATA)
          /\ Has(b, K("model")) /\ Has(b, DATA)
          /\ HashesOf(a) = {} /\ HashesOf(b) = {}
    /\ Len(aspects.kv) > 0

(***************************************************************************)
(* Claims about the order of the stages                                     *)
(***************************************************************************)
\* the component a call belongs to
ComponentOf(op) ==
    CASE op = "crosswalker" -> "Annotator"
      [] op = "flatten_json_iterative_solution" -> "Flattener"
      [] op = "cleanup_flattened" -> "Leaf Extractor"
      [] op = "group_link_override" -> "Group-Link Rewriter"
      [] op = "get_semantics" -> "Namespace Resolver"
      [] op = "binner" -> "Binner"
      [] op = "bin_grouper" -> "Bin Grouper"
      [] op \in {"aspects", "facets", "datapoint"} -> "Identifier Assigner"
      [] op = "datasetmodder" -> "Dataset Reshaper"
      [] op = "remove_extra_metadata" -> "Metadata Stripper"
      [] op = "scilinker" -> "Cross-Linker"
      [] op = "datagroup" -> "Group Builder"
      [] op = "scicleanup" -> "Finalizer"
      [] OTHER -> "none"

\* the components in the order they are listed
ListedOrder ==
    << "Annotator", "Flattener", "Leaf Extractor", "Group-Link Rewriter",
       "Namespace Resolver", "Binner", "Bin Grouper", "Identifier Assigner",
       "Dataset Reshaper", "Metadata Stripper", "Cross-Linker",
       "Group Builder", "Finalizer" >>

\* the components with the Identifier Assigner after the Metadata Stripper
ReshapeFirstOrder ==
    << "Annotator", "Flattener", "Leaf Extractor", "Group-Link Rewriter",
       "Namespace Resolver", "Binner", "Bin Grouper", "Dataset Reshaper",
       "Metadata Stripper", "Identifier Assigner", "Cross-Linker",
       "Group Builder", "Finalizer" >>

\* the place of the component of a call in an order, 0 before any call
StageRank(order, op) ==
    IF ComponentOf(op) = "none" THEN 0
    ELSE CHOOSE i \in 1..Len(order) : order[i] = ComponentOf(op)

\* every step belongs to the stage of the step before it or to the stage
\* that follows it in the order, and the run ends after the last stage
InOrder(order) ==
    /\ StageRank(order, last'.op)
          \in {StageRank(order, last.op), StageRank(order, last.op) + 1}
    /\ pc' = "output" => StageRank(order, last'.op) = Len(order)

\* C13 as stated: the stages of a run execute in the listed order, the
\* Identifier Assigner before the Dataset Reshaper and the Metadata
\* Stripper, each starting when the one before it has finished.
C13_ListedStageOrder == [][InOrder(ListedOrder)]_vars

\* C13: the stages of a run execute in the listed order except that the
\* Identifier Assigner (aspects, facets, datapoint) runs after the Dataset
\* Reshaper and the Metadata Stripper and before the Cross-Linker; each
\* stage starts when the one before it has returned.
C13_ReshapeBeforeIdentifiers == [][InOrder(ReshapeFirstOrder)]_vars

\* a run of the sample through every stage, the datapoints of both entries
\* assigned identifiers after they were reshaped
C13_Witness ==
    /\ pc = "output" /\ err = "none"
    /\ last.op = "scicleanup"
    /\ Len(datasetmod) = 2
    /\ Len(Datapoints(dataset)) = 2
    /\ Has(dataset, DATAGROUP)

(***************************************************************************)
(* cleanup_flattened of the top-level module                                *)
(***************************************************************************)
\* re.search(r'^(\D*\d)(.*)$', k).group(1): k up to its first digit
UpToFirstDigit(k) == SubSeq(k, 1, Min({i \in 1..Len(k) : IsDigit(k[i])}))

\* the exception a leaf raises in the top-level cleanup_flattened, "none"
\* when its entry is built
CleanupErrorFlat(k, v) ==
    IF ~HasSym(k, ";") THEN "IndexError"
    ELSE IF ~IsLiteral(v) THEN "ValueError"
    ELSE IF ~Has(LiteralEval(v), SDSUBSECTION) THEN "KeyError"
    ELSE "none"

\* sci_group: k up to the end of its last run of digits, or
\* k.rsplit(';', 1)[0]
SciGroup(k) ==
    IF HasDigit(k) THEN SubSeq(k, 1, LastDigit(k)) ELSE BeforeLast(k, ";")

\* val before val.update(ast.literal_eval(v))
CleanupValFlat(k) ==
    Dict(<< KV(K("scidata_dir"), StrV(k)),
            KV(SCIDATA_KEY, StrV(AfterLast(k, ";"))),
            KV(K("scidata_group"), StrV(SciGroup(k))),
            KV(K("scidata_group_alt"),
               StrV(IF HasDigit(k) THEN UpToFirstDigit(k)
                    ELSE BeforeLast(k, ";"))) >>)

\* val after the two updates: the group link is
\* sci_group + '/' + str(val['sdsubsection'])
cleanup_entry_flat(k, v) ==
    Put(Update(CleanupValFlat(k), LiteralEval(v)), GROUP_LINK,
        StrV(SciGroup(k) \o <<"/">>
             \o StrOf(Get(Update(CleanupValFlat(k), LiteralEval(v)),
                          SDSUBSECTION))))

\* the index of the first item that raises, 0 when none does
FirstRaiseFlat(items) ==
    IF \A i \in 1..Len(items) : CleanupErrorFlat(items[i].k, items[i].v) = "none"
    THEN 0
    ELSE Min({i \in 1..Len(items) :
                 CleanupErrorFlat(items[i].k, items[i].v) # "none"})

\* the loop over items of which the stop-th raises (none for 0)
cleanup_loop_flat(items, stop) ==
    [out |-> Dict([i \in 1..(IF stop = 0 THEN Len(items) ELSE stop - 1) |->
                      KV(items[i].k, cleanup_entry_flat(items[i].k, items[i].v))]),
     err |-> IF stop = 0 THEN "none"
             ELSE CleanupErrorFlat(items[stop].k, items[stop].v)]

\* cleanup_flattened(sci_input) of the top-level module
cleanup_flattened_flat(input) ==
    cleanup_loop_flat(Cleaned(input), FirstRaiseFlat(Cleaned(input)))

(***************************************************************************)
(* SpecCleanup: both cleanup_flattened on bounded flattened mappings        *)
(***************************************************************************)
\* most entries of a flattened mapping
MaxLeaves == 2

\* path keys: without a digit, with a list index, with a mapping under a
\* list element, with two indices, with an index of two digits, with a
\* digit inside a name, with a digit at the end, without a separator
PathKeys ==
    << <<"T", ";", "f">>,
       <<"T", ";", "L", ";", "0", ";", "f">>,
       <<"T", ";", "L", ";", "0", ";", "U", ";", "f">>,
       <<"T", ";", "L", ";", "1", ";", "0", ";", "f">>,
       <<"T", ";", "L", ";", "1", "2", ";", "f">>,
       <<"T", ";", "h", "2", "o", ";", "f">>,
       <<"T", ";", "f", "2">>,
       <<"f">> >>

\* the field name of a path key, the name crosswalker matched
FieldOf(k) == IF HasSym(k, ";") THEN AfterLast(k, ";") ELSE k

\* a crosswalk row for the field of a path key
RowFor(k, section, subsection) ==
    Dict(<< KV(K("id"), IntV(1)), KV(TABLE, W("T")),
            KV(FIELD, StrV(FieldOf(k))),
            KV(SDSECTION, W(section)), KV(SDSUBSECTION, subsection) >>)

\* the sections of a row and a subsection of each; a row may have no
\* subsection (None)
RowKinds ==
    { <<"dataset", W("exptdata")>>, <<"methodology", W("model")>>,
      <<"system", W("compound")>>, <<"system", None>> }

\* a string that starts with a brace and is not the text of a literal
BraceText == StrV(<<"{", "x", "}">>)

\* the values a flattened mapping may hold at a path key: a leaf that
\* crosswalker annotated, or a scalar that it left alone
LeafValues(k) ==
    {Annotated(IF kind[1] = "dataset" THEN IntV(7) ELSE W("v"),
               RowFor(k, kind[1], kind[2])) : kind \in RowKinds}
        \cup {W("v"), IntV(7), BraceText}

InitCleanup ==
    /\ pc = "cleanup_flattened"
    /\ err = "none"
    /\ \E S \in {T \in SUBSET (1..Len(PathKeys)) : Cardinality(T) \in 1..MaxLeaves} :
          \E f \in [S -> UNION {LeafValues(PathKeys[i]) : i \in S}] :
              /\ \A i \in S : f[i] \in LeafValues(PathKeys[i])
              /\ dictionary = Dict(SelectIdx(
                                 [i \in 1..Len(PathKeys) |->
                                     KV(PathKeys[i], IF i \in S THEN f[i] ELSE None)],
                                 LAMBDA i : i \in S))
    /\ object_data_json = EmptyDict /\ crosswalks = <<>> /\ cw_table = FALSE
    /\ sci_input = EmptyDict
    /\ group_overrides = <<>> /\ sci_links = <<>> /\ sci_groups = <<>>
    /\ DocInit /\ BinIdle
    /\ last = NoCall

\* cleanup_flattened(flat_object_data_json) of the top-level module
CleanupFlattenedFlat ==
    /\ pc = "cleanup_flattened"
    /\ LET r == cleanup_flattened_flat(dictionary)
       IN /\ sci_input' = r.out
          /\ err' = r.err
          /\ pc' = Returned(r.err, "group_link_override")
    /\ last' = Call("cleanup_flattened_flat", dictionary, EmptyDict)
    /\ UNCHANGED <<dictionary, treeVars, docVars, binVars, ruleVars>>

NextCleanup == CleanupFlattened \/ CleanupFlattenedFlat

SpecCleanup == InitCleanup /\ [][NextCleanup]_vars

(***************************************************************************)
(* Claims about cleanup_flattened                                           *)
(***************************************************************************)
\* the first place of the last run of digits of a key that holds a digit
LastRunStart(k) ==
    Min({i \in 1..Len(k) :
            /\ \A j \in i..Max({n \in 1..Len(k) : IsDigit(k[n])}) : IsDigit(k[j])
            /\ i <= Max({n \in 1..Len(k) : IsDigit(k[n])})})

\* the last place of the last run of digits
LastRunEnd(k) == Max({i \in 1..Len(k) : IsDigit(k[i])})

\* the entries the call has returned
Extracted ==
    IF last.op \in {"cleanup_flattened", "cleanup_flattened_flat"} /\ err = "none"
    THEN {sci_input.kv[i] : i \in 1..Len(sci_input.kv)}
    ELSE {}

GroupKeyOf(e) == Get(e.v, K("scidata_group")).s.val

\* C14 as stated: for a path key that holds a run of digits the group key
\* is the path with its last run of digits and everything after it
\* removed; for a path key without a digit it is the path with its last
\* segment removed.
C14_GroupKeyDropsRun ==
    \A e \in Extracted :
        GroupKeyOf(e) = IF HasDigit(e.k) THEN SubSeq(e.k, 1, LastRunStart(e.k) - 1)
                        ELSE BeforeLast(e.k, ";")

\* C14: for a path key that holds a run of digits the group key is the
\* path up to and including its last run of digits, everything after the
\* run removed; for a path key without a digit it is the path with its
\* last segment removed.
C14_GroupKeyKeepsRun ==
    \A e \in Extracted :
        GroupKeyOf(e) = IF HasDigit(e.k) THEN SubSeq(e.k, 1, LastRunEnd(e.k))
                        ELSE BeforeLast(e.k, ";")

\* the package's function has returned entries for a key with two list
\* indices and for a key without a digit
C14_Witness ==
    /\ last.op = "cleanup_flattened" /\ err = "none"
    /\ \E a, b \in Extracted :
          /\ a.k = PathKeys[1] /\ GroupKeyOf(a) = <<"T">>
          /\ b.k = PathKeys[4]
          /\ GroupKeyOf(b) = <<"T", ";", "L", ";", "1", ";", "0">>

\* C15: for every extracted methodology or system leaf the group link is
\* the group key (scidata_group) followed by '/' and the subsection, and
\* for every extracted dataset leaf it is the group key followed by '/'.
C15_GroupLinkFromGroupKey ==
    \A e \in Extracted :
        Get(e.v, GROUP_LINK).s.val
            = GroupKeyOf(e) \o <<"/">>
                \o (IF Get(e.v, SDSECTION) = W("dataset") THEN <<>>
                    ELSE StrOf(Get(e.v, SDSUBSECTION)))

\* the items of the flattened mapping that crosswalker annotated
AnnotatedItems(d) == SelectIdx(d.kv, LAMBDA i : IsLiteral(d.kv[i].v))

\* C16: cleanup_flattened outputs an entry for a path key exactly when the
\* value at the key is a leaf that crosswalker annotated; every other
\* entry, a number or a string of any text, is dropped, and scidata_value
\* of the parsed record is the scalar the leaf held.
C16_ExactlyAnnotatedLeaves ==
    last.op \in {"cleanup_flattened", "cleanup_flattened_flat"} =>
        /\ err = "none"
        /\ Len(sci_input.kv) = Len(AnnotatedItems(last.arg))
        /\ \A i \in 1..Len(sci_input.kv) :
              /\ sci_input.kv[i].k = AnnotatedItems(last.arg)[i].k
              /\ Get(sci_input.kv[i].v, SCIDATA_VALUE)
                    = Get(LiteralEval(AnnotatedItems(last.arg)[i].v),
                          SCIDATA_VALUE)

(***************************************************************************)
(* bin_grouper and datasetmodder of the top-level module                    *)
(***************************************************************************)
\* list(d) for a dict d: the list of its keys
KeyList(d) == List([i \in 1..Len(d.kv) |-> StrV(d.kv[i].k)])

\* the branch of a key the group holds already: in the dataset bin a dict
\* becomes list(dict), elsewhere a list of itself; then c is appended
group_again_flat(prev, cur, c) ==
    IF IsDict(cur)
    THEN [prev EXCEPT
             !.out = Put(@, KeyOf(c),
                         ListAppend(IF Get(c, SDSECTION) = W("dataset")
                                    THEN KeyList(cur) ELSE List(<<cur>>), c))]
    ELSE IF IsList(cur)
    THEN [prev EXCEPT !.out = Put(@, KeyOf(c), ListAppend(cur, c))]
    ELSE [prev EXCEPT !.err = "AttributeError"]

\* the body of "for c in b" for the group of link d
group_member_flat(prev, c, d) ==
    IF prev.err # "none" \/ Get(c, GROUP_LINK) # d THEN prev
    ELSE IF GetTruthy(prev.out, KeyOf(c))
    THEN group_again_flat(prev, Get(prev.out, KeyOf(c)), c)
    ELSE [prev EXCEPT !.out = Put(Put(@, ID, GroupId(c)), KeyOf(c), c)]

\* sdsubsection_group for link d
group_of_flat(b, d) ==
    LET F[i \in 0..Len(b.kv)] ==
            IF i = 0 THEN [out |-> EmptyDict, err |-> "none"]
            ELSE group_member_flat(F[i - 1], b.kv[i].v, d)
    IN F[Len(b.kv)]

\* subset_list of a bin whose links are visited in the given order
subset_list_flat(b, order) ==
    LET F[i \in 0..Len(order)] ==
            IF i = 0 THEN [out |-> List(<<>>), err |-> "none"]
            ELSE IF F[i - 1].err # "none" THEN F[i - 1]
            ELSE subset_add(F[i - 1], group_of_flat(b, order[i]))
    IN F[Len(order)]

\* bin_grouper(sci_input) of the top-level module under an order function
bin_grouper_flat(input, ord) ==
    LET F[i \in 0..Len(input.kv)] ==
            IF i = 0 THEN [out |-> EmptyDict, err |-> "none"]
            ELSE IF F[i - 1].err # "none" THEN F[i - 1]
            ELSE grouper_store(F[i - 1], input.kv[i].k,
                     subset_list_flat(input.kv[i].v,
                                      ord[GroupLinks(input.kv[i].v)]))
    IN F[Len(input.kv)]

\* value.update({"@id": "value", "@type": "sdo:value", key: scidata_value,
\* '#': scidata_group_link}) for the leaves of subsection sdsub
value_item_flat(prev, item, sdsub) ==
    IF Get(item.v, SDSUBSECTION) # sdsub THEN prev
    ELSE Put(Put(Put(Put(prev, ID, W("value")),
                     TYPE, StrV(<<"sdo", ":", "value">>)),
                 KeyOf(item.v), Get(item.v, SCIDATA_VALUE)),
             HASH, Get(item.v, GROUP_LINK))

value_of_flat(x, sdsub) ==
    LET F[i \in 0..Len(Leaves(x))] ==
            IF i = 0 THEN EmptyDict
            ELSE value_item_flat(F[i - 1], Leaves(x)[i], sdsub)
    IN F[Len(Leaves(x))]

\* the exception the loops over the items of x raise, "none" when they end
LeavesErrorFlat(x) ==
    IF LeavesError(x) # "none" THEN LeavesError(x)
    ELSE IF \E i \in 1..Len(Leaves(x)) : ~Has(Leaves(x)[i].v, GROUP_LINK)
    THEN "KeyError"
    ELSE "none"

\* the datapoint of group x
datapoint_of_flat(x, order) ==
    Dict(<< KV(ID, W("datapoint")),
            KV(TYPE, StrV(<<"sdo", ":", "datapoint">>)),
            KV(DATA, List([i \in 1..Len(order) |->
                   Dict(<< KV(ID, W("datum")),
                           KV(TYPE, StrV(<<"sdo", ":">> \o order[i].s.val)),
                           KV(VALUE, value_of_flat(x, order[i])) >>)])) >>)

\* the body of "for x in sci_input"
modder_group_flat(prev, x, ord) ==
    IF prev.err # "none" THEN prev
    ELSE IF ~IsDict(x) THEN [prev EXCEPT !.err = "AttributeError"]
    ELSE IF LeavesErrorFlat(x) # "none"
    THEN [prev EXCEPT !.err = LeavesErrorFlat(x)]
    ELSE [prev EXCEPT !.out = Append(@, datapoint_of_flat(x, ord[DatumTypes(x)]))]

\* datasetmodder(sci_input) of the top-level module under an order function
datasetmodder_flat(input, ord) ==
    LET F[i \in 0..Len(input)] ==
            IF i = 0 THEN [out |-> <<>>, err |-> "none"]
            ELSE modder_group_flat(F[i - 1], input[i], ord)
    IN F[Len(input)]

(***************************************************************************)
(* SpecGroup: binner, bin_grouper and datasetmodder on bounded leaves       *)
(***************************************************************************)
MaxGroup == 3

\* path keys of leaves: two fields of a list element, the first field in a
\* mapping under the element, and the first field of another element
GroupKeys ==
    << <<"T", ";", "L", ";", "0", ";", "f">>,
       <<"T", ";", "L", ";", "0", ";", "g">>,
       <<"T", ";", "L", ";", "0", ";", "U", ";", "f">>,
       <<"T", ";", "L", ";", "1", ";", "f">> >>

\* the sections of the rows and a subsection of each
GroupKinds ==
    { <<"dataset", W("exptdata")>>, <<"dataset", W("suppdata")>>,
      <<"system", W("compound")>> }

\* the annotated leaves a flattened mapping may hold at a path key
GroupLeaves(k) ==
    {Annotated(IF kind[1] = "dataset" THEN IntV(7) ELSE W("v"),
               RowFor(k, kind[1], kind[2])) : kind \in GroupKinds}

\* the flattened mappings of at most MaxGroup annotated leaves
GroupMappings ==
    UNION {{Dict(SelectIdx([i \in 1..Len(GroupKeys) |->
                               KV(GroupKeys[i], IF i \in S THEN f[i] ELSE None)],
                           LAMBDA i : i \in S)) :
               f \in {h \in [S -> UNION {GroupLeaves(GroupKeys[i]) : i \in S}] :
                         \A i \in S : h[i] \in GroupLeaves(GroupKeys[i])}} :
           S \in {T \in SUBSET (1..Len(GroupKeys)) : Cardinality(T) \in 1..MaxGroup}}

\* override tables: none, and a rule that gives one link to every leaf
\* under 'T' (a pattern without a second group, so the replacement is
\* taken as it is written)
GroupOverrideTables ==
    { <<>>, <<Rule(Pat(<<Lit(<<"T">>)>>, FALSE), <<"m", "/", "data">>)>> }

\* the state of the script before line 212: the leaves are those of
\* cleanup_flattened, their links those of group_link_override
InitGroup ==
    /\ pc = "binner"
    /\ err = "none"
    /\ group_overrides \in GroupOverrideTables
    /\ dictionary \in GroupMappings
    /\ sci_input = group_link_override(cleanup_flattened(dictionary).out,
                                       group_overrides)
    /\ object_data_json = EmptyDict /\ crosswalks = <<>> /\ cw_table = FALSE
    /\ sci_links = <<>> /\ sci_groups = <<>>
    /\ DocInit /\ BinIdle
    /\ last = NoCall

\* bin_grouper(bins) of the top-level module
BinGrouperFlat ==
    /\ pc = "bin_grouper"
    /\ \E ord \in SetOrders(GrouperSets(bins)) :
          LET r == bin_grouper_flat(bins, ord)
          IN /\ bins_grouped' = r.out
             /\ err' = r.err
             /\ pc' = Returned(r.err, "datasetmodder")
    /\ last' = Call("bin_grouper_flat", EmptyDict, EmptyDict)
    /\ UNCHANGED <<dictionary, sci_input, treeVars, docVars, bins, datasetmod,
                   ruleVars>>

\* datasetmodder(bins_grouped['dataset']) of the top-level module
DatasetmodderFlat ==
    /\ pc = "datasetmodder"
    /\ IF ~Has(bins_grouped, K("dataset"))
       THEN /\ err' = "KeyError" /\ pc' = "raised" /\ datasetmod' = datasetmod
       ELSE \E ord \in SetOrders(ModderSets(Grouped("dataset"))) :
              LET r == datasetmodder_flat(Grouped("dataset"), ord)
              IN /\ datasetmod' = r.out
                 /\ err' = r.err
                 /\ pc' = Returned(r.err, "remove_methodology")
    /\ last' = Call("datasetmodder_flat", EmptyDict, EmptyDict)
    /\ UNCHANGED <<dictionary, sci_input, treeVars, docVars, bins,
                   bins_grouped, ruleVars>>

NextGroup ==
    \/ Binner
    \/ BinGrouper
    \/ BinGrouperFlat
    \/ Datasetmodder
    \/ DatasetmodderFlat

SpecGroup == InitGroup /\ [][NextGroup]_vars

(***************************************************************************)
(* Claims about bin_grouper                                                 *)
(***************************************************************************)
\* the leaves of bucket b with group link d and local key k, in the order
\* of the bucket
LeavesAt(b, d, k) ==
    SelectIdx(b, LAMBDA i : Get(b[i], GROUP_LINK) = d /\ KeyOf(b[i]) = k)

\* what a grouped record holds under k: the leaf when it is the only one,
\* the sequence of the leaves when they are several
Held(b, d, k) ==
    IF Len(LeavesAt(b, d, k)) = 1 THEN LeavesAt(b, d, k)[1]
    ELSE List(LeavesAt(b, d, k))

\* g is the grouped record of link d of bucket b
GroupHolds(g, b, d) ==
    /\ Keys(g) = {ID} \cup {KeyOf(b[i]) :
                               i \in {j \in 1..Len(b) : Get(b[j], GROUP_LINK) = d}}
    /\ \A k \in Keys(g) \ {ID} : Get(g, k) = Held(b, d, k)

\* the grouped records of bucket a are those of its distinct group links
BucketConserved(a, b) ==
    IF b = <<>> THEN ~Has(bins_grouped, a)
    ELSE /\ Has(bins_grouped, a)
         /\ Len(Get(bins_grouped, a).kv)
               = Cardinality({Get(b[i], GROUP_LINK) : i \in 1..Len(b)})
         /\ \A i \in 1..Len(b) :
               \E j \in 1..Len(Get(bins_grouped, a).kv) :
                  GroupHolds(Elems(Get(bins_grouped, a))[j], b,
                             Get(b[i], GROUP_LINK))

\* C17: after bin_grouper (of the package or of the top-level module), every
\* bucket has exactly one grouped record per distinct group link, and the
\* record of a link holds, under each local key, the leaf of the bucket
\* with that link and key, or the sequence of all of them when they are
\* several; no leaf is lost, duplicated or put under another link.
C17_GroupingConservesLeaves ==
    last.op \in {"bin_grouper", "bin_grouper_flat"} =>
        /\ err = "none"
        /\ \A n \in 1..Len(bins.kv) :
              BucketConserved(bins.kv[n].k, Elems(bins.kv[n].v))

(***************************************************************************)
(* Claims about datasetmodder                                               *)
(***************************************************************************)
\* the datums of a datapoint
DatumsOf(p) == Elems(Get(p, DATA))

\* datum m is the datum of subsection sdsub of the grouped record x: its
\* type is 'sdo:' + sdsub and its value wrapper maps the local key of every
\* field of the subsection to the scalar of the leaf
DatumHolds(m, x, sdsub) ==
    /\ Get(m, TYPE) = StrV(<<"sdo", ":">> \o sdsub.s.val)
    /\ \A i \in 1..Len(Leaves(x)) :
          Get(Leaves(x)[i].v, SDSUBSECTION) = sdsub =>
              /\ Has(Get(m, VALUE), KeyOf(Leaves(x)[i].v))
              /\ Get(Get(m, VALUE), KeyOf(Leaves(x)[i].v))
                    = Get(Leaves(x)[i].v, SCIDATA_VALUE)
              /\ ~IsDict(Get(Get(m, VALUE), KeyOf(Leaves(x)[i].v)))

\* datapoint p is the datapoint of the grouped record x
DatapointHolds(p, x) ==
    /\ Get(p, ID) = W("datapoint")
    /\ Len(DatumsOf(p)) = Len(DatumTypes(x))
    /\ \A i \in 1..Len(DatumTypes(x)) :
          \E j \in 1..Len(DatumsOf(p)) : DatumHolds(DatumsOf(p)[j], x, DatumTypes(x)[i])

\* C20: datasetmodder (of the package or of the top-level module) returns
\* one datapoint per grouped record of the dataset bin, in the order of the
\* records; the datapoint has one datum per distinct subsection of the
\* record's fields, typed 'sdo:' + subsection, whose value wrapper maps the
\* local key of every field of the subsection to the leaf's bare scalar.
C20_DatapointPerGroupedRecord ==
    (last.op \in {"datasetmodder", "datasetmodder_flat"}
        /\ Has(bins_grouped, K("dataset"))) =>
            /\ err = "none"
            /\ Len(datasetmod) = Len(Grouped("dataset"))
            /\ \A n \in 1..Len(datasetmod) :
                  DatapointHolds(datasetmod[n], Grouped("dataset")[n])

(***************************************************************************)
(* Claims about the frame of SciData.datagroup                              *)
(***************************************************************************)
\* the value of field k of datapoint p equals the value a rule instantiates
\* at one of the indices 1..n
MatchedUpTo(rule, p, n) ==
    \E j \in 1..n : Get(p, rule.k) = GroupValue(rule, j)

\* C18: datagroup removes the field of a group rule only from the
\* datapoints whose field value equals a value the rule instantiates at an
\* index; a datapoint whose field holds another value has the same field
\* with the same value after the call.
C18_UnmatchedKeepField ==
    (last.op = "datagroup" /\ err = "none") =>
        \A n \in 1..Len(sci_groups) : \A i \in 1..Len(last.arg.kv) :
            (/\ Has(Elems(last.arg)[i], sci_groups[n].k)
             /\ ~MatchedUpTo(sci_groups[n], Elems(last.arg)[i],
                             Len(last.arg.kv) + 1))
            => /\ Has(Datapoints(dataset)[i], sci_groups[n].k)
               /\ Get(Datapoints(dataset)[i], sci_groups[n].k)
                     = Get(Elems(last.arg)[i], sci_groups[n].k)

(***************************************************************************)
(* Claims about the relations SciData.scilinker writes                      *)
(***************************************************************************)
\* the string references of a record that are read (the truthy ones)
ReadRefs(rec) == {ref \in RefsOf(rec) : IsStr(ref) /\ Truthy(ref)}

\* the identifiers of the records a concrete target is found in
MatchIds(find) ==
    {Get(r, ID) : r \in {x \in AllRecords(dataset, aspects, facets) :
                            \E ref \in ReadRefs(x) :
                                TemplateSearch(find, ref.s.val)}}

\* the relation field k of record rec holds exactly the identifiers of T:
\* no field for none, the identifier for one, a list without duplicates
\* for several
HoldsExactly(rec, k, T) ==
    IF T = {} THEN ~Has(rec, k)
    ELSE /\ Has(rec, k)
         /\ RelationIds(rec, k) = T
         /\ IF Cardinality(T) = 1 THEN ~IsList(Get(rec, k))
            ELSE IsList(Get(rec, k)) /\ Len(Get(rec, k).kv) = Cardinality(T)

\* C19: after scilinker, for every record with a reference that matches the
\* source pattern of a link rule and for every relation of the rule, the
\* relation field of the record holds the identifiers of exactly the
\* records, of the three sections, that have a reference (their own or in
\* the value of a data entry) in which the target made concrete for the
\* reference is found: the identifier itself for one such record, a list
\* without duplicates for several, and no field for none.
C19_RelationOfOneRule ==
    (last.op = "scilinker" /\ err = "none") =>
        \A rec \in AllRecords(dataset, aspects, facets) :
          \A ref \in ReadRefs(rec) : \A n \in 1..Len(sci_links) :
            Search(sci_links[n].pattern, ref.s.val) =>
                \A t \in 1..Len(sci_links[n].targets) :
                    HoldsExactly(rec, sci_links[n].targets[t].k,
                        MatchIds(Substitute(sci_links[n].pattern,
                                            sci_links[n].targets[t].v,
                                            ref.s.val)))

\* the relations a link rule table names
RelationNames == UNION {{sci_links[n].targets[t].k : t \in 1..Len(sci_links[n].targets)} :
                           n \in 1..Len(sci_links)}

\* the concrete targets of relation k for record rec: one for every
\* reference of the record, every rule whose source pattern the reference
\* matches and every target of the rule named k
FindsOf(rec, k) ==
    UNION {UNION {{Substitute(sci_links[n].pattern, sci_links[n].targets[t].v,
                              ref.s.val) :
                      t \in {u \in 1..Len(sci_links[n].targets) :
                                sci_links[n].targets[u].k = k}} :
                  n \in {m \in 1..Len(sci_links) :
                            Search(sci_links[m].pattern, ref.s.val)}} :
           ref \in ReadRefs(rec)}

\* C19 as the code has it: after scilinker, for every record and every
\* relation that a rule matching a reference of the record names, the
\* relation field holds the identifiers of exactly the records in which one
\* of the concrete targets of the relation is found, over all the matching
\* rules and all the references of the record: the identifier itself for
\* one such record, a list without duplicates for several, no field for
\* none.
C19_RelationOfAllRules ==
    (last.op = "scilinker" /\ err = "none") =>
        \A rec \in AllRecords(dataset, aspects, facets) :
            \A k \in RelationNames :
                FindsOf(rec, k) # {} =>
                    HoldsExactly(rec, k,
                                 UNION {MatchIds(find) : find \in FindsOf(rec, k)})

\* scilinker has run under two rules that name the relation 'crystal': a
\* datapoint holds the list of the two crystals, found by different rules,
\* and has no relation 'model', whose target is found nowhere
C19_Witness ==
    /\ last.op = "scilinker" /\ err = "none"
    /\ \E rec \in AllRecords(dataset, aspects, facets) :
          /\ Cardinality(FindsOf(rec, K("crystal"))) = 2
          /\ \E find \in FindsOf(rec, K("crystal")) : Cardinality(MatchIds(find)) = 1
          /\ IsList(Get(rec, K("crystal")))
          /\ Len(Get(rec, K("crystal")).kv) = 2
          /\ FindsOf(rec, K("model")) # {}
          /\ ~Has(rec, K("model"))

(***************************************************************************)
(* SpecStrip: remove_extra_metadata and the calls that add the records to   *)
(* the document, on bounded grouped leaves                                  *)
(***************************************************************************)
MaxStrip == 2

\* the sections of the rows of the leaves that vary and a subsection of each
StripKinds == { <<"methodology", W("model")>>, <<"system", W("compound")>> }

\* the scalars of the leaves: a string and two numbers
StripScalars == {W("v"), IntV(7), IntV(8)}

\* the annotated leaves a flattened mapping may hold at a path key
StripLeaves(k) ==
    {Annotated(y, RowFor(k, kind[1], kind[2])) :
        y \in StripScalars, kind \in StripKinds}

\* a leaf directly under the table
BaseLeaf(field, y, section, subsection) ==
    KV(<<"T", ";", field>>,
       Annotated(y, RowFor(<<"T", ";", field>>, section, subsection)))

\* the leaves every mapping holds, one of each section (without a section
\* the script stops at bins_grouped[...], example.py lines 216 to 220)
BaseLeaves ==
    << BaseLeaf("d", IntV(7), "dataset", W("exptdata")),
       BaseLeaf("m", W("v"), "methodology", W("model")),
       BaseLeaf("s", W("v"), "system", W("compound")) >>

\* the path keys of the leaves that vary: two fields of a list element and
\* the first field in a mapping under the element
StripKeys == SubSeq(GroupKeys, 1, 3)

\* the flattened mappings: the leaves of every mapping and at most
\* MaxStrip leaves of methodology and system
StripMappings ==
    UNION {{Dict(BaseLeaves \o
                 SelectIdx([i \in 1..Len(StripKeys) |->
                               KV(StripKeys[i], IF i \in S THEN f[i] ELSE None)],
                           LAMBDA i : i \in S)) :
               f \in {h \in [S -> UNION {StripLeaves(StripKeys[i]) : i \in S}] :
                         \A i \in S : h[i] \in StripLeaves(StripKeys[i])}} :
           S \in {T \in SUBSET (1..Len(StripKeys)) : Cardinality(T) \in 1..MaxStrip}}

\* the state of the script before line 218: the leaves are those of
\* cleanup_flattened, their links those of group_link_override, the bins
\* those of binner and bin_grouper, the datapoints those of datasetmodder
InitStrip ==
    /\ pc = "remove_methodology"
    /\ err = "none"
    /\ group_overrides \in GroupOverrideTables
    /\ dictionary \in StripMappings
    /\ sci_input = group_link_override(cleanup_flattened(dictionary).out,
                                       group_overrides)
    /\ bins = binner(sci_input).out
    /\ \E ord \in SetOrders(GrouperSets(bins)) :
          bins_grouped = bin_grouper(bins, ord).out
    /\ \E ord \in SetOrders(ModderSets(Grouped("dataset"))) :
          datasetmod = datasetmodder(Grouped("dataset"), ord).out
    /\ object_data_json = EmptyDict /\ crosswalks = <<>> /\ cw_table = FALSE
    /\ sci_links = <<>> /\ sci_groups = <<>>
    /\ DocInit
    /\ last = NoCall

NextStrip ==
    \/ RemoveMethodology
    \/ RemoveSystem
    \/ ExampleAspects
    \/ ExampleFacets
    \/ ExampleDatapoint

SpecStrip == InitStrip /\ [][NextStrip]_vars

(***************************************************************************)
(* Claims about remove_extra_metadata                                       *)
(***************************************************************************)
\* the bin the script strips at its position
StrippedBin == IF pc = "remove_methodology" THEN "methodology" ELSE "system"

\* the bare values of a sequence of annotated leaves
BareValues(v) == {Get(v.kv[i].v, SCIDATA_VALUE) : i \in 1..Len(v.kv)}

\* field k of the stripped record holds what the leaf or the leaves of the
\* grouped record give
StrippedField(before, after, k) ==
    IF IsDict(Get(before, k))
    THEN Get(after, k) = Get(Get(before, k), SCIDATA_VALUE)
    ELSE IF ~IsList(Get(before, k)) THEN Get(after, k) = Get(before, k)
    ELSE IF Cardinality(BareValues(Get(before, k))) = 1
    THEN Get(after, k) \in BareValues(Get(before, k))
    ELSE /\ IsList(Get(after, k))
         /\ {Get(after, k).kv[i].v : i \in 1..Len(Get(after, k).kv)}
               = BareValues(Get(before, k))
         /\ Len(Get(after, k).kv) = Cardinality(BareValues(Get(before, k)))

\* the last leaf seen in a grouped record: the leaf of its last field, the
\* last one when the field holds a sequence
LastLeaf(before) ==
    LET v == Leaves(before)[Len(Leaves(before))].v
    IN IF IsList(v) THEN v.kv[Len(v.kv)].v ELSE v

\* C21: remove_extra_metadata leaves in every record, for each field that
\* held an annotated leaf, the bare value of the leaf; for each field that
\* held a sequence of leaves, their bare values without duplicates, as a
\* scalar when one distinct value remains; and sets the record's '#' to the
\* group link of the last leaf seen in the record.
C21_StripKeepsBareValues ==
    [][(last'.op = "remove_extra_metadata" /\ err' = "none") =>
          /\ Len(Get(bins_grouped', K(StrippedBin)).kv) = Len(Grouped(StrippedBin))
          /\ \A n \in 1..Len(Grouped(StrippedBin)) :
                LET before == Grouped(StrippedBin)[n]
                    after == Elems(Get(bins_grouped', K(StrippedBin)))[n]
                IN /\ \A k \in Keys(before) :
                         Has(after, k) /\ StrippedField(before, after, k)
                   /\ Has(after, HASH)
                   /\ Get(after, HASH) = Get(LastLeaf(before), GROUP_LINK)]_vars

\* a system record stripped of two leaves that share link and local key:
\* it holds the list of their two distinct bare values
C21_Witness ==
    /\ last.op = "remove_extra_metadata" /\ err = "none" /\ pc = "aspects"
    /\ \E n \in 1..Len(Grouped("system")) :
          /\ Has(Grouped("system")[n], K("f"))
          /\ IsList(Get(Grouped("system")[n], K("f")))
          /\ Len(Get(Grouped("system")[n], K("f")).kv) = 2
          /\ Has(Grouped("system")[n], HASH)
    /\ Len(Grouped("methodology")) = 1

(***************************************************************************)
(* Claims about the registry of references (SciData.ids)                    *)
(***************************************************************************)
\* a string of the form 'prefix:term': one ':' and no '://'
PrefixTerm(x) ==
    /\ IsStr(x)
    /\ Cardinality(Positions(x.s.val, ":")) = 1
    /\ ~Contains(x.s.val, <<":", "/", "/">>)

\* C22: after aspects, facets or datapoint has processed a record, every
\* scalar string of a field of the record that has the form 'prefix:term'
\* (one ':', no '://') is in the registry of references of the document.
C22_ReferencesRegistered ==
    (Adding /\ err = "none") =>
        \A n \in 1..Len(last.arg.kv) :
            \A i \in 1..Len(Elems(last.arg)[n].kv) :
                (Elems(last.arg)[n].kv[i].k # ID
                    /\ PrefixTerm(Elems(last.arg)[n].kv[i].v))
                => Elems(last.arg)[n].kv[i].v.s.val \in ids

(***************************************************************************)
(* SpecBins: get_semantics and binner on bounded leaves and tables          *)
(***************************************************************************)
MaxBinned == 2

\* a row of onttermslist and a row of nspaceslist
TermRow(id, nspace) ==
    Dict(<<KV(ID_COLUMN, IntV(id)), KV(K("nspace_id"), IntV(nspace))>>)

NamespaceRow(id, ns) ==
    Dict(<< KV(ID_COLUMN, IntV(id)), KV(K("ns"), W(ns)),
            KV(K("path"), StrV(<<"http://", ns, "/">>)) >>)

\* the tables of a call: terms 1 and 2 in namespaces 1 and 2; term 3
\* absent, in a namespace that no row has, or in namespace 1
TermTables ==
    { <<TermRow(1, 1), TermRow(2, 2)>>,
      <<TermRow(1, 1), TermRow(2, 2), TermRow(3, 3)>>,
      <<TermRow(1, 1), TermRow(2, 2), TermRow(3, 1)>> }

NamespaceTable == <<NamespaceRow(1, "obo"), NamespaceRow(2, "sdo")>>

\* the ontology terms of the crosswalk rows
TermIds == 1..3

\* the sections of the crosswalk rows: the three of the bins and another
BinnedSections == {"methodology", "system", "dataset", "other"}

\* a crosswalk row for the field of a path key with its ontology term
TermRowFor(k, section, term) ==
    Dict(<< KV(K("id"), IntV(1)), KV(TABLE, W("T")),
            KV(FIELD, StrV(FieldOf(k))), KV(ONTTERM_ID, IntV(term)),
            KV(SDSECTION, W(section)), KV(SDSUBSECTION, W("sub")) >>)

\* the annotated leaves a flattened mapping may hold at a path key
BinnedLeaves(k) ==
    {Annotated(W("v"), TermRowFor(k, section, term)) :
        section \in BinnedSections, term \in TermIds}

\* the flattened mappings of at most MaxBinned annotated leaves
BinnedMappings ==
    UNION {{Dict(SelectIdx([i \in 1..Len(StripKeys) |->
                               KV(StripKeys[i], IF i \in S THEN f[i] ELSE None)],
                           LAMBDA i : i \in S)) :
               f \in {h \in [S -> UNION {BinnedLeaves(StripKeys[i]) : i \in S}] :
                         \A i \in S : h[i] \in BinnedLeaves(StripKeys[i])}} :
           S \in {T \in SUBSET (1..Len(StripKeys)) : Cardinality(T) \in 1..MaxBinned}}

\* the state of the script before line 207
InitBins ==
    /\ pc = "get_semantics"
    /\ err = "none"
    /\ group_overrides = <<>>
    /\ dictionary \in BinnedMappings
    /\ sci_input = group_link_override(cleanup_flattened(dictionary).out,
                                       group_overrides)
    /\ object_data_json = EmptyDict /\ crosswalks = <<>> /\ cw_table = FALSE
    /\ sci_links = <<>> /\ sci_groups = <<>>
    /\ DocInit /\ BinIdle
    /\ last = NoCall

\* the two tables as the argument of a call
Tables(ontterms, nspaces) ==
    Dict(<< KV(K("onttermslist"), List(ontterms)),
            KV(K("nspaceslist"), List(nspaces)) >>)

\* get_semantics(object_data_json_flat_filtered, onttermslist, nspaceslist)
\* with the tables of the caller; nothing is returned when it raises
GetSemanticsOf(ontterms, nspaces) ==
    /\ pc = "get_semantics"
    /\ LET r == get_semantics(sci_input, ontterms, nspaces)
       IN /\ err' = r.err
          /\ pc' = Returned(r.err, "binner")
          /\ last' = Call("get_semantics", Tables(ontterms, nspaces),
                          IF r.err = "none" THEN r.out ELSE EmptyDict)
    /\ UNCHANGED <<dictionary, sci_input, treeVars, docVars, binVars, ruleVars>>

NextBins ==
    \/ \E ontterms \in TermTables : GetSemanticsOf(ontterms, NamespaceTable)
    \/ Binner

SpecBins == InitBins /\ [][NextBins]_vars

(***************************************************************************)
(* Claims about get_semantics and binner                                    *)
(***************************************************************************)
\* the tables of the latest call of get_semantics
CallTerms == Elems(Get(last.arg, K("onttermslist")))

CallNamespaces == Elems(Get(last.arg, K("nspaceslist")))

\* the ids of the rows of a table
RowIds(table) == {Get(table[i], ID_COLUMN) : i \in 1..Len(table)}

\* the namespace ids of the rows of onttermslist for the term of a leaf
NamespaceIdsOf(leaf) ==
    {Get(CallTerms[i], K("nspace_id")) :
        i \in {j \in 1..Len(CallTerms) :
                  Get(CallTerms[j], ID_COLUMN) = Get(leaf, ONTTERM_ID)}}

\* a leaf whose term, or the namespace of whose term, no row has
Unresolved(leaf) ==
    \/ Get(leaf, ONTTERM_ID) \notin RowIds(CallTerms)
    \/ \E n \in NamespaceIdsOf(leaf) : n \notin RowIds(CallNamespaces)

\* the rows of nspaceslist the leaves refer to
ReferencedNamespaces ==
    {row \in {CallNamespaces[i] : i \in 1..Len(CallNamespaces)} :
        \E i \in 1..Len(sci_input.kv) :
            Get(row, ID_COLUMN) \in NamespaceIdsOf(sci_input.kv[i].v)}

LeavesOfSection(name) ==
    SelectIdx([i \in 1..Len(sci_input.kv) |-> sci_input.kv[i].v],
              LAMBDA i : Get(sci_input.kv[i].v, SDSECTION) = W(name))

\* the names of the three bins
BinNames == {"methodology", "system", "dataset"}

\* C24: binner puts every leaf whose section is methodology, system or
\* dataset in the bin of that name, in the order of the input, and in no
\* other bin; a leaf of any other section makes binner raise the exception
\* of an invalid section (KeyError, from bins[v['sdsection']]) and no bins
\* are returned.
C24_BinsBySection ==
    last.op = "binner" =>
        IF \E i \in 1..Len(sci_input.kv) :
              \A name \in BinNames : Get(sci_input.kv[i].v, SDSECTION) # W(name)
        THEN err = "KeyError" /\ pc = "raised" /\ bins = EmptyDict
        ELSE /\ err = "none"
             /\ Keys(bins) = {K(name) : name \in BinNames}
             /\ \A name \in BinNames :
                   Elems(Get(bins, K(name))) = LeavesOfSection(name)

\* two leaves of the same section binned in the order of the input, the
\* other bins empty
C24_Witness ==
    /\ last.op = "binner" /\ err = "none"
    /\ Len(Get(bins, K("system")).kv) = 2
    /\ Elems(Get(bins, K("system")))[1] = sci_input.kv[1].v
    /\ Elems(Get(bins, K("system")))[2] = sci_input.kv[2].v
    /\ Get(bins, K("dataset")).kv = <<>>

(***************************************************************************)
(* Claims about identifiers across calls                                    *)
(***************************************************************************)
\* the '@id' of the entries of a section
SectionIds(entries) == [i \in 1..Len(entries) |-> GetOr(entries[i], ID)]

\* C25: after any sequence of calls of aspects, of facets and of datapoint
\* on one document, the entries accumulated in the list of a section have
\* pairwise distinct '@id', entries of one category added by different
\* calls included.
C25_IdsUniqueAcrossCalls ==
    /\ AllDistinct(SectionIds(Elems(aspects)))
    /\ AllDistinct(SectionIds(Elems(facets)))
    /\ AllDistinct(SectionIds(Datapoints(dataset)))

(***************************************************************************)
(* Claims about leaves that share a local key                               *)
(***************************************************************************)
\* two leaves of one section with the same group link and the same local
\* key, which bin_grouper files as a sequence
SharedKey ==
    \E i, j \in 1..Len(sci_input.kv) :
        /\ i < j
        /\ Get(sci_input.kv[i].v, SDSECTION) = Get(sci_input.kv[j].v, SDSECTION)
        /\ Get(sci_input.kv[i].v, GROUP_LINK) = Get(sci_input.kv[j].v, GROUP_LINK)
        /\ KeyOf(sci_input.kv[i].v) = KeyOf(sci_input.kv[j].v)

\* C26: when two or more leaves of one group share a local key, the stages
\* after bin_grouper complete without error: remove_extra_metadata and the
\* calls of aspects, facets and datapoint that follow it, also when the
\* distinct bare values are numbers.
C26_SharedKeyCompletes == SharedKey => err = "none"

(***************************************************************************)
(* Claims about the keys cleanup_flattened accepts                          *)
(***************************************************************************)
\* every string of the flattened mapping that starts with a brace is a leaf
\* that crosswalker annotated
OnlyAnnotatedBraces(d) ==
    \A i \in 1..Len(d.kv) :
        (IsStr(d.kv[i].v) /\ StartsWithBrace(d.kv[i].v)) => IsLiteral(d.kv[i].v)

\* C27: cleanup_flattened completes without error on every flattened mapping
\* of an annotated tree, also when an annotated path key ends in a digit and
\* when an annotated path key holds no separator.
C27_CleanupCompletes ==
    (last.op \in {"cleanup_flattened", "cleanup_flattened_flat"}
        /\ OnlyAnnotatedBraces(last.arg)) => err = "none"

(***************************************************************************)
(* Claims about the trees crosswalker accepts                               *)
(***************************************************************************)
RECURSIVE HasBareElement(_)
\* some sequence of the tree holds an element that is no mapping: a scalar
\* or a sequence
HasBareElement(node) ==
    \/ IsList(node) /\ \E j \in 1..Len(node.kv) : ~IsDict(node.kv[j].v)
    \/ (IsDict(node) \/ IsList(node))
          /\ \E i \in 1..Len(node.kv) : HasBareElement(node.kv[i].v)

RECURSIVE BareKept(_, _)
\* b holds, in the places of the elements of a that are no mapping, the
\* elements themselves
BareKept(a, b) ==
    IF IsList(a)
    THEN /\ IsList(b) /\ Len(b.kv) = Len(a.kv)
         /\ \A j \in 1..Len(a.kv) :
               IF IsDict(a.kv[j].v) THEN BareKept(a.kv[j].v, b.kv[j].v)
               ELSE b.kv[j].v = a.kv[j].v
    ELSE IF IsDict(a)
    THEN /\ IsDict(b) /\ Len(b.kv) = Len(a.kv)
         /\ \A i \in 1..Len(a.kv) : BareKept(a.kv[i].v, b.kv[i].v)
    ELSE TRUE

\* C28: crosswalker completes without error on every input tree, also on a
\* mapping field whose value is a sequence of scalars or of sequences, and
\* it leaves such elements as they are.
C28_CrosswalkerCompletes ==
    last.op = "crosswalker" =>
        /\ err = "none"
        /\ BareKept(last.arg, object_data_json)

(***************************************************************************)
(* Claims about SciData.datagroup on a document without datapoints          *)
(***************************************************************************)
\* C29: datagroup called with any table of group rules on a document on
\* which datapoint was never called, so that the dataset has no key
\* 'datapoint', completes without error and leaves an empty list as the
\* datagroup of the dataset.
C29_DatagroupWithoutDatapoints ==
    (last.op = "datagroup" /\ ~Has(dataset, DATAPOINT)) =>
        /\ err = "none"
        /\ GetOr(dataset, DATAGROUP) = List(<<>>)

(***************************************************************************)
(* Claims about scilinker after scicleanup                                  *)
(***************************************************************************)
\* no record of the three sections bears '#' or '##', itself or in the
\* value wrapper of a datum: the state scicleanup leaves
Finalized(dset, asp, fac) ==
    \A rec \in AllRecords(dset, asp, fac) : HashesOf(rec) = {}

\* C30: once scicleanup has run on a document, a later call of scilinker
\* with any table of link rules changes no record.  scicleanup leaves no
\* reference on any record, datagroup and scilinker bring none back, and a
\* call of scilinker on records without references returns and leaves the
\* three sections as they were.
C30_NoLinkAfterCleanup ==
    [][/\ (last'.op = "scicleanup" /\ err' = "none")
              => Finalized(dataset', aspects', facets')
       /\ (Finalized(dataset, aspects, facets)
              /\ last'.op \in {"scilinker", "datagroup"})
              => Finalized(dataset', aspects', facets')
       /\ (Finalized(dataset, aspects, facets) /\ last'.op = "scilinker")
              => /\ err' = "none"
                 /\ <<dataset, aspects, facets>>' = <<dataset, aspects, facets>>
      ]_vars

\* scilinker has run after scicleanup on a document with a datapoint, a
\* model and a compound that the sample rules would link: the records
\* bear no reference, which only scicleanup takes away, and the datapoint
\* has no relation
C30_Witness ==
    /\ last.op = "scilinker"
    /\ err = "none"
    /\ sci_links = SampleLinks
    /\ Len(Datapoints(dataset)) > 0 /\ Len(aspects.kv) > 0 /\ Len(facets.kv) > 0
    /\ Finalized(dataset, aspects, facets)
    /\ \A rec \in AllRecords(dataset, aspects, facets) :
          ~Has(rec, K("model")) /\ ~Has(rec, K("compound"))

====
